---- MODULE Spec2Model ----
(***************************************************************************)
(* A model of the resumable collection pipeline of sly0731/myansys:         *)
(*   - AStockCollector.fetch_and_save_all    (src/src/collector/a_stock.py) *)
(*   - StockDatabaseManager.execute, save/load/delete_task_progress,        *)
(*     ensure_table_exists, bulk_upsert      (src/src/database/manager.py)  *)
(*                                                                         *)
(* Storage is modelled with the transaction boundaries the code writes:     *)
(* statements sent through execute() run on self.connection and are         *)
(* committed only when execute() is called with fetch=False (manager.py     *)
(* 240-241); bulk_upsert runs on its own pooled connection and commits      *)
(* (manager.py 396).  A process kill discards every uncommitted statement.  *)
(* The SQL statements have the meaning PostgreSQL gives them, and the       *)
(* driver is taken to provide every call the code makes on it (a live       *)
(* self.connection, cursor.copy).                                           *)
(***************************************************************************)
EXTENDS Integers, Sequences, FiniteSets, TLC

(***************************************************************************)
(* Bounds of the model.                                                     *)
(***************************************************************************)
MaxUniverse == 2      \* most active symbols in stock_basic
MaxRows == 2          \* most rows the provider returns for one symbol
MaxRuns == 2          \* most calls of fetch_and_save_all in one behaviour
MaxDates == 2         \* trade dates a row handed to bulk_upsert may carry
MaxSymbolLen == 7     \* characters a symbol handed to the validators may have
MaxColumns == 2       \* columns the conditions of a query may name
MaxRetries == 3       \* largest max_retries a retry decorator is given

VARIABLES
    \* ---- storage -------------------------------------------------------
    universe,          \* symbols of stock_basic with status = 1, in row order
    task_progress,     \* committed row of table task_progress for the task id
    txn,               \* uncommitted statements of self.connection on that row
    stock_hot,         \* stock_hot[s]: committed rows of table stock_hot_<s>
    clock,             \* CURRENT_TIMESTAMP of the database, one tick a call
    engine,            \* the pool, the connections and the storage call at hand
    wrapper,           \* the call of a retried function at hand
    calendar,          \* trading_calendar, its sources and the calendar call
    runners,           \* runs of fetch_and_save_all going on side by side
    \* ---- one call of fetch_and_save_all ---------------------------------
    pc,                \* position of the running call ("idle": none running)
    task_id,           \* the task_id argument (NoTask: None)
    force_redo,        \* the force_redo argument
    batch_size,        \* the batch_size argument
    i,                 \* offset of the current batch (the loop variable i)
    j,                 \* 0-based position of the entity at hand in the batch
    stats,             \* the stats dict
    processed_symbols, \* the processed_symbols set
    data,              \* rows returned by fetch_history_data for the entity
    result,            \* how the last call ended
    runs,              \* calls of fetch_and_save_all started so far
    \* ---- observations the properties are stated on ----------------------
    obs                \* record of what the calls did (see ObsInit)

store_vars == <<universe, task_progress, txn, stock_hot, clock, engine, wrapper,
               calendar, runners>>
run_vars == <<pc, task_id, force_redo, batch_size, i, j, stats,
              processed_symbols, data, result, runs>>
vars == <<store_vars, run_vars, obs>>

(***************************************************************************)
(* Values.                                                                  *)
(***************************************************************************)
NoTask == "none"                 \* task_id = None
TheTask == "collect"             \* the task id every run with a task uses
Symbols == 1..MaxUniverse

\* stats as initialised at a_stock.py 307-313
ZeroStats ==
    [total |-> 0, success |-> 0, failed |-> 0, processed |-> 0, records |-> 0]

\* load_task_progress finding no row (it returns None)
Absent ==
    [present |-> FALSE, stats |-> ZeroStats, processed_symbols |-> {},
     current_batch |-> 0]

\* self.connection with no statement pending
CleanTxn == [dirty |-> FALSE, row |-> Absent]

(***************************************************************************)
(* StockDatabaseManager.execute on the task_progress row (manager.py       *)
(* 214-255).  The statement takes effect inside the open transaction of     *)
(* self.connection; the transaction is committed only if fetch is False.    *)
(***************************************************************************)
execute(fetch, session, committed, row) ==
    IF fetch
    THEN [txn |-> [dirty |-> TRUE, row |-> row], committed |-> committed]
    ELSE [txn |-> CleanTxn, committed |-> row]

\* the except branch of execute: self.connection.rollback() (manager.py 252-255)
rollback(session) == CleanTxn

\* what a SELECT through self.connection sees: its own pending statements
\* over the committed row (manager.py 580-588)
load_task_progress ==
    IF txn.dirty THEN txn.row ELSE task_progress

\* save_task_progress calls execute without fetch, i.e. fetch=True
\* (manager.py 565-576, default at 218)
save_task_progress(progress_data) ==
    execute(TRUE, txn, task_progress,
            [present |-> TRUE,
             stats |-> progress_data.stats,
             processed_symbols |-> progress_data.processed_symbols,
             current_batch |-> progress_data.current_batch])

\* delete_task_progress that deletes nothing
delete_task_progress_kept ==
    [txn |-> txn, committed |-> task_progress]

\* delete_task_progress calls execute without fetch as well (manager.py 592-597)
delete_task_progress ==
    execute(TRUE, txn, task_progress, Absent)

(***************************************************************************)
(* The storage call at hand.  A call that is over leaves how it ended; the  *)
(* pool and what self.connection holds live on between calls.               *)
(***************************************************************************)
\* a conditions argument: None, or a dict of column and value
NoneGiven == [given |-> FALSE, items |-> {}]
Dict(items) == [given |-> TRUE, items |-> items]

\* a table name: whether it starts with stock_hot_, and what follows, one
\* kind of character after another
NoName == [stock_hot |-> FALSE, symbol |-> <<>>]

\* fields, order_by and limit of a query, as they default (manager.py
\* 407-410)
NoArguments == [fields |-> <<>>, order_by |-> "None", limit |-> "None"]

NoCallAtHand ==
    [op |-> "none",            \* the method called
     at |-> "idle",            \* where the call stands
     update_fields |-> {},     \* its update_fields argument
     conditions |-> NoneGiven, \* its conditions argument
     name |-> NoName,          \* its table_name argument
     arguments |-> NoArguments,\* the other arguments of a query
     statement |-> <<>>,       \* the statement it built, piece by piece
     params |-> <<>>,          \* the parameters bound to the statement
     conn |-> "none",          \* the connection it runs on
     autocommit |-> FALSE,     \* that connection's autocommit
     pending |-> {},           \* the target table as its transaction has it
     events |-> <<>>,          \* what it did to connections, in order
     outcome |-> "none",       \* "returned" or "raised" once it is over
     error |-> "none",         \* the exception raised
     value |-> 0,              \* the value returned
     before |-> {},            \* the target table when it was called
     was_there |-> FALSE]      \* the table had been provisioned before it

EngineIdle ==
    [call |-> NoCallAtHand,
     checked_out |-> 0,        \* connections taken from self.pool
     exists |-> TRUE,          \* the target table exists, committed
     session |-> [dirty |-> FALSE, exists |-> TRUE],
                               \* self.connection: statements pending, and
                               \* whether the table exists as it sees it
     provisioned |-> FALSE]    \* ensure_table_exists has returned normally

(***************************************************************************)
(* A call of a function wrapped by retry (decorators.py 22-56).             *)
(***************************************************************************)
NoWrapper ==
    [func |-> "none",          \* the function wrapped
     symbol |-> <<>>,          \* the symbol it is called with
     max_retries |-> 0,        \* the max_retries of the decorator
     exceptions |-> {},        \* the exceptions of the decorator
     attempt |-> 0,            \* the loop variable attempt
     last_exception |-> "None",
     at |-> "idle",            \* where the call stands
     trace |-> <<>>,           \* how each invocation ended, and the waits
     provider_calls |-> 0,     \* calls of the data provider made by func
     outcome |-> "none",       \* "returned" or "raised" once it is over
     error |-> "none"]         \* the exception raised

(***************************************************************************)
(* The trading calendar: table trading_calendar, what the source of        *)
(* trading dates a call asks reports, and the calendar call at hand.        *)
(* Dates are numbered.                                                      *)
(***************************************************************************)
NoCalendarCall ==
    [op |-> "none",            \* the method called
     date |-> 0,               \* its date (start_date of update_calendar)
     end_date |-> 0,           \* the end_date of update_calendar
     exchange |-> "SSE",       \* its exchange
     method |-> "auto",        \* the method of is_trading_day
     update_local |-> FALSE,   \* the update_local of is_trading_day
     source |-> "exchange",    \* the source of update_calendar
     at |-> "idle",
     outcome |-> "none",       \* "returned" or "raised" once it is over
     error |-> "none",         \* the exception raised
     answer |-> FALSE,         \* the bool returned by is_trading_day
     day |-> 0,                \* the date returned, 0 for None
     consulted |-> {},         \* the sources the call asked
     failed |-> "none"]        \* what it called that failed, if anything

NoCalendar ==
    [table |-> {},             \* committed rows of trading_calendar
     trading_days |-> {},      \* the trading dates the source asked reports
     call |-> NoCalendarCall]

(***************************************************************************)
(* Runs of fetch_and_save_all going on side by side on one task_id.  The    *)
(* repository starts no second run itself; two runs are either two threads  *)
(* calling one collector, which share self.connection, or two processes,    *)
(* each with a manager and a connection of its own.                         *)
(***************************************************************************)
NoRunners ==
    [shared |-> FALSE,         \* the runs share one manager
     run |-> <<>>,             \* the locals of each run
     session |-> <<>>]         \* what each connection holds uncommitted

(***************************************************************************)
(* Rows.  close stands for the columns save_to_database lists in            *)
(* update_fields, adjust_flag for a column it does not list, created_at     *)
(* and updated_at for the columns that default to CURRENT_TIMESTAMP         *)
(* (manager.py 153-154); updated_at is also what the BEFORE UPDATE trigger  *)
(* of a stock_hot table sets (manager.py 179-194).                          *)
(***************************************************************************)
ProviderClose(s, d) == s * 10 + d

\* the list fetch_history_data builds (a_stock.py 145-176): one dict per
\* trading day, adjust_flag 0 (collector/helpers.py 63)
RowsOf(s) == MaxRows - ((s - 1) % MaxRows)

ProviderRow(s, d) ==
    [trade_date |-> d, close |-> ProviderClose(s, d), adjust_flag |-> 0]

ProviderRows(s) == [d \in 1..RowsOf(s) |-> ProviderRow(s, d)]

KeysOf(R) == {R[k].trade_date : k \in 1..Len(R)}

\* INSERT .. ON CONFLICT DO UPDATE refuses to touch one row twice
HasDuplicateKey(R) == Cardinality(KeysOf(R)) < Len(R)

\* Merge with DO UPDATE SET over every incoming column, listed or not
MergeOverwrite(table, R, update_fields, has_trigger, now) ==
    {t \in table : t.trade_date \notin KeysOf(R)} \cup
    UNION {IF \E t \in table : t.trade_date = R[k].trade_date
           THEN {[trade_date |-> t.trade_date, close |-> R[k].close,
                  adjust_flag |-> R[k].adjust_flag,
                  created_at |-> t.created_at,
                  updated_at |-> IF has_trigger THEN now ELSE t.updated_at] :
                    t \in {u \in table : u.trade_date = R[k].trade_date}}
           ELSE {[trade_date |-> R[k].trade_date, close |-> R[k].close,
                  adjust_flag |-> R[k].adjust_flag,
                  created_at |-> now, updated_at |-> now]} : k \in 1..Len(R)}

\* Merge without its ON CONFLICT clause: every row of R is inserted
MergeAppend(table, R, update_fields, has_trigger, now) ==
    table \cup {[trade_date |-> R[k].trade_date, close |-> R[k].close,
                 adjust_flag |-> R[k].adjust_flag,
                 created_at |-> now, updated_at |-> now] : k \in 1..Len(R)}

\* INSERT INTO t SELECT * FROM temp_upsert_data
\* ON CONFLICT (trade_date) DO UPDATE SET f = EXCLUDED.f, ... (manager.py 377-394)
Merge(table, R, update_fields, has_trigger, now) ==
    LET kept == {t \in table : t.trade_date \notin KeysOf(R)}
        hit(r) == {t \in table : t.trade_date = r.trade_date}
        inserted(r) ==
            [trade_date |-> r.trade_date, close |-> r.close,
             adjust_flag |-> r.adjust_flag,
             created_at |-> now, updated_at |-> now]
        updated(t, r) ==
            [trade_date |-> t.trade_date,
             close |-> IF "close" \in update_fields THEN r.close ELSE t.close,
             adjust_flag |-> IF "adjust_flag" \in update_fields
                             THEN r.adjust_flag ELSE t.adjust_flag,
             created_at |-> t.created_at,
             updated_at |-> IF has_trigger THEN now ELSE t.updated_at]
        merged(r) ==
            IF hit(r) = {} THEN {inserted(r)}
            ELSE {updated(t, r) : t \in hit(r)}
    IN  kept \cup UNION {merged(R[k]) : k \in 1..Len(R)}

\* bulk_upsert returning the number of rows it inserted, not len(data)
bulk_upsert_inserted(table, R, update_fields, has_trigger, now, db_ok) ==
    IF update_fields = {}
    THEN [raised |-> TRUE, table |-> table, count |-> 0]
    ELSE IF Len(R) = 0
    THEN [raised |-> FALSE, table |-> table, count |-> 0]
    ELSE IF ~db_ok \/ HasDuplicateKey(R)
    THEN [raised |-> TRUE, table |-> table, count |-> 0]
    ELSE [raised |-> FALSE,
          table |-> Merge(table, R, update_fields, has_trigger, now),
          count |-> Cardinality(KeysOf(R) \ {t.trade_date : t \in table})]

\* bulk_upsert (manager.py 347-401).  db_ok is FALSE when the database fails
\* a statement.  The result tells whether the call raised, the table as
\* committed afterwards and the count returned.
bulk_upsert(table, R, update_fields, has_trigger, now, db_ok) ==
    IF update_fields = {}
    THEN [raised |-> TRUE, table |-> table, count |-> 0]
    ELSE IF Len(R) = 0
    THEN [raised |-> FALSE, table |-> table, count |-> 0]
    ELSE IF ~db_ok \/ HasDuplicateKey(R)
    THEN [raised |-> TRUE, table |-> table, count |-> 0]
    ELSE [raised |-> FALSE,
          table |-> Merge(table, R, update_fields, has_trigger, now),
          count |-> Len(R)]

\* the update_fields of save_to_database (a_stock.py 195-199)
SaveUpdateFields == {"close"}

(***************************************************************************)
(* Observations.  obs records what the calls did; no action reads it to     *)
(* decide what the program does.                                            *)
(***************************************************************************)
RunObs ==
    [fetch_calls |-> {},       \* symbols fetch_history_data was called for
     marked |-> {},            \* symbols added to processed_symbols
     visited |-> <<>>,         \* symbols the loop has taken up, in order
     last_symbol |-> 0,        \* the entity taken up last
     last_outcome |-> "none",  \* and how its handling ended
     stats0 |-> ZeroStats,     \* stats when that entity was taken up
     raised |-> FALSE,         \* some call of this run raised
     loaded |-> FALSE,         \* this run was seeded from a checkpoint
     infra_failed |-> "none",  \* the run-level call that raised, if any
     deleted |-> FALSE,        \* delete_task_progress was called
     got_rows |-> {},          \* symbols a fetch returned rows for
     resumed |-> FALSE]        \* this run restarts an interrupted run

ObsInit ==
    [run |-> RunObs,
     stopped_task |-> FALSE,   \* the last run had a task_id and was cut short
     stop_set |-> {}]          \* processed_symbols of the checkpoint it left

(***************************************************************************)
(* The loop of fetch_and_save_all (a_stock.py 338-343).                     *)
(***************************************************************************)
Min(a, b) == IF a < b THEN a ELSE b

\* batch = stocks[i:i + batch_size]
Batch == SubSeq(universe, i + 1, Min(i + batch_size, Len(universe)))

\* symbol = stock['symbol']
symbol == Batch[j + 1]

\* for i in range(0, len(stocks), batch_size): a batch is left to take up
InLoop == i < Len(universe)

NextJStays == j

\* the next stock of the batch, or the first stock of the next batch
NextI == IF j + 1 < Len(Batch) THEN i ELSE i + batch_size
NextJ == IF j + 1 < Len(Batch) THEN j + 1 ELSE 0

SkipItNever == FALSE

\* if symbol in processed_symbols and not force_redo (a_stock.py 345)
SkipIt == symbol \in processed_symbols /\ ~force_redo

\* the dict of 363-367 built without the processed set
CheckpointDataBare ==
    [stats |-> stats, processed_symbols |-> {}, current_batch |-> i]

\* the dict handed to save_task_progress (a_stock.py 363-367)
CheckpointData ==
    [stats |-> stats, processed_symbols |-> processed_symbols,
     current_batch |-> i]

\* where the handling goes once the entity is counted (a_stock.py 362)
AfterCount == IF task_id # NoTask THEN "checkpoint" ELSE "sleep"

TakeUp(o, outcome) ==
    [o EXCEPT !.run.visited = Append(@, symbol),
              !.run.last_symbol = symbol,
              !.run.last_outcome = outcome,
              !.run.stats0 = stats]

\* the locals of a call that is over
ResetRun ==
    /\ pc' = "idle"
    /\ task_id' = NoTask
    /\ force_redo' = FALSE
    /\ batch_size' = 1
    /\ i' = 0
    /\ j' = 0
    /\ stats' = ZeroStats
    /\ processed_symbols' = {}
    /\ data' = <<>>

(***************************************************************************)
(* fetch_and_save_all, entry (a_stock.py 307-335): the universe query, the  *)
(* checkpoint load and the seeding of stats and processed_symbols.          *)
(***************************************************************************)
StartObs(tid, fr, progress) ==
    [obs EXCEPT !.run = [RunObs EXCEPT
                            !.loaded = progress.present,
                            !.resumed = obs.stopped_task /\ tid # NoTask /\ ~fr],
                !.stopped_task = FALSE,
                !.stop_set = IF obs.stopped_task /\ tid # NoTask /\ ~fr
                             THEN @ ELSE {}]

StartOk(tid, fr, bs) ==
    /\ pc = "idle"
    /\ runs < MaxRuns
    /\ LET progress == IF tid # NoTask /\ ~fr THEN load_task_progress ELSE Absent
       IN  /\ processed_symbols' =
                IF progress.present THEN progress.processed_symbols ELSE {}
           /\ stats' =
                IF progress.present THEN progress.stats
                ELSE [ZeroStats EXCEPT !.total = Len(universe)]
           /\ obs' = StartObs(tid, fr, progress)
    /\ pc' = "loop"
    /\ task_id' = tid
    /\ force_redo' = fr
    /\ batch_size' = bs
    /\ i' = 0
    /\ j' = 0
    /\ data' = <<>>
    /\ result' = "running"
    /\ runs' = runs + 1
    /\ clock' = clock + 1
    /\ UNCHANGED <<universe, engine, wrapper, calendar, runners, task_progress, txn, stock_hot>>

\* an execute() that raises rolls self.connection back; the error leaves
\* fetch_and_save_all through the outer except (a_stock.py 387-389)
RunRaises(what) ==
    /\ txn' = rollback(txn)
    /\ result' = "raised"
    /\ obs' = [obs EXCEPT !.run.raised = TRUE,
                          !.run.infra_failed = what,
                          !.run.last_symbol = 0,
                          !.run.last_outcome = "none",
                          !.run.stats0 = ZeroStats,
                          !.stopped_task = FALSE,
                          !.stop_set = {}]
    /\ ResetRun
    /\ UNCHANGED <<universe, engine, wrapper, calendar, runners, task_progress, stock_hot, clock>>

\* self.db.query('stock_basic', ...) raises (a_stock.py 317-321)
StartQueryRaises ==
    /\ pc = "idle"
    /\ runs < MaxRuns
    /\ runs' = runs + 1
    /\ RunRaises("query")

\* self.db.load_task_progress(task_id) raises (a_stock.py 328-329)
StartLoadRaises ==
    /\ pc = "idle"
    /\ runs < MaxRuns
    /\ runs' = runs + 1
    /\ RunRaises("load")

(***************************************************************************)
(* fetch_and_save_all, one entity (a_stock.py 342-375).                     *)
(***************************************************************************)
\* the entity is in processed_symbols: count it and go on (345-347)
Skip ==
    /\ pc = "loop"
    /\ InLoop
    /\ SkipIt
    /\ stats' = [stats EXCEPT !.processed = @ + 1]
    /\ i' = NextI
    /\ j' = NextJ
    /\ obs' = TakeUp(obs, "skipped")
    /\ UNCHANGED <<store_vars, pc, task_id, force_redo, batch_size,
                   processed_symbols, data, result, runs>>

\* the except branch without its stats['failed'] += 1
EntityRaisesUncounted(o) ==
    /\ i' = NextI
    /\ j' = NextJ
    /\ pc' = "loop"
    /\ data' = <<>>
    /\ obs' = [o EXCEPT !.run.raised = TRUE]
    /\ UNCHANGED <<task_id, force_redo, batch_size, stats, processed_symbols,
                   result, runs>>

\* the except branch of the entity (372-375): one more failure, next entity
EntityRaises(o) ==
    /\ stats' = [stats EXCEPT !.failed = @ + 1]
    /\ i' = NextI
    /\ j' = NextJ
    /\ pc' = "loop"
    /\ data' = <<>>
    /\ obs' = [o EXCEPT !.run.raised = TRUE]
    /\ UNCHANGED <<task_id, force_redo, batch_size, processed_symbols,
                   result, runs>>

\* fetch_history_data raises once its retries are used up (350)
FetchRaises ==
    /\ pc = "loop"
    /\ InLoop
    /\ ~SkipIt
    /\ EntityRaises([TakeUp(obs, "fetch_raised") EXCEPT
                        !.run.fetch_calls = @ \cup {symbol}])
    /\ UNCHANGED store_vars

\* lines 358-359 without processed_symbols.add(symbol)
CountUnmarked(s, o) ==
    /\ stats' = [s EXCEPT !.processed = @ + 1]
    /\ pc' = AfterCount
    /\ obs' = [o EXCEPT !.run.marked = @ \cup {symbol}]
    /\ UNCHANGED <<task_id, force_redo, batch_size, i, j, processed_symbols,
                   result, runs>>

\* lines 358-359, after either branch of "if data"
Count(s, o) ==
    /\ processed_symbols' = processed_symbols \cup {symbol}
    /\ stats' = [s EXCEPT !.processed = @ + 1]
    /\ pc' = AfterCount
    /\ obs' = [o EXCEPT !.run.marked = @ \cup {symbol}]
    /\ UNCHANGED <<task_id, force_redo, batch_size, i, j, result, runs>>

\* the else branch of "if data" without its stats['failed'] += 1
FetchEmptyUncounted ==
    /\ pc = "loop"
    /\ InLoop
    /\ ~SkipIt
    /\ Count(stats,
             [TakeUp(obs, "empty") EXCEPT !.run.fetch_calls = @ \cup {symbol}])
    /\ data' = <<>>
    /\ UNCHANGED store_vars

\* fetch_history_data returns [] (350, 355-356)
FetchEmpty ==
    /\ pc = "loop"
    /\ InLoop
    /\ ~SkipIt
    /\ Count([stats EXCEPT !.failed = @ + 1],
             [TakeUp(obs, "empty") EXCEPT !.run.fetch_calls = @ \cup {symbol}])
    /\ data' = <<>>
    /\ UNCHANGED store_vars

\* fetch_history_data returns rows (350-351)
FetchRows ==
    /\ pc = "loop"
    /\ InLoop
    /\ ~SkipIt
    /\ data' = ProviderRows(symbol)
    /\ pc' = "store"
    /\ obs' = [TakeUp(obs, "rows") EXCEPT
                  !.run.fetch_calls = @ \cup {symbol},
                  !.run.got_rows = @ \cup {symbol}]
    /\ UNCHANGED <<store_vars, task_id, force_redo, batch_size, i, j, stats,
                   processed_symbols, result, runs>>

(***************************************************************************)
(* save_to_database (a_stock.py 182-212): ensure_table_exists through       *)
(* execute(), then bulk_upsert on a pooled connection.  The creation of a   *)
(* table is taken to be visible to every connection at once.                *)
(***************************************************************************)
\* ensure_table_exists and bulk_upsert return (352-354)
StoreOk ==
    /\ pc = "store"
    /\ LET up == bulk_upsert(stock_hot[symbol], data, SaveUpdateFields,
                             TRUE, clock, TRUE)
       IN  /\ ~up.raised
           /\ stock_hot' = [stock_hot EXCEPT ![symbol] = up.table]
           /\ Count([stats EXCEPT !.records = @ + up.count,
                                  !.success = @ + 1],
                    [obs EXCEPT !.run.last_outcome = "stored"])
    /\ data' = <<>>
    /\ UNCHANGED <<universe, engine, wrapper, calendar, runners, task_progress, txn, clock>>

\* an execute() of ensure_table_exists raises (manager.py 270-274, 252-255)
StoreEnsureRaises ==
    /\ pc = "store"
    /\ txn' = rollback(txn)
    /\ EntityRaises([obs EXCEPT !.run.last_outcome = "store_raised"])
    /\ UNCHANGED <<universe, engine, wrapper, calendar, runners, task_progress, stock_hot, clock>>

\* bulk_upsert raises: its own transaction is rolled back (manager.py 398-401)
StoreUpsertRaises ==
    /\ pc = "store"
    /\ LET up == bulk_upsert(stock_hot[symbol], data, SaveUpdateFields,
                             TRUE, clock, FALSE)
       IN  /\ up.raised
           /\ stock_hot' = [stock_hot EXCEPT ![symbol] = up.table]
    /\ EntityRaises([obs EXCEPT !.run.last_outcome = "store_raised"])
    /\ UNCHANGED <<universe, engine, wrapper, calendar, runners, task_progress, txn, clock>>

(***************************************************************************)
(* The checkpoint of the entity and the delay (a_stock.py 361-370).         *)
(***************************************************************************)
CheckpointOk ==
    /\ pc = "checkpoint"
    /\ LET e == save_task_progress(CheckpointData)
       IN  /\ txn' = e.txn
           /\ task_progress' = e.committed
    /\ pc' = "sleep"
    /\ UNCHANGED <<universe, engine, wrapper, calendar, runners, stock_hot, clock, task_id,
                   force_redo, batch_size, i, j, stats, processed_symbols,
                   data, result, runs, obs>>

\* save_task_progress raises inside the try of the entity (363, 372-375)
CheckpointRaises ==
    /\ pc = "checkpoint"
    /\ txn' = rollback(txn)
    /\ EntityRaises([obs EXCEPT !.run.last_outcome = "save_raised",
                                !.run.infra_failed = "save"])
    /\ UNCHANGED <<universe, engine, wrapper, calendar, runners, task_progress, stock_hot, clock>>

\* time.sleep(0.5), then the next stock (370)
Sleep ==
    /\ pc = "sleep"
    /\ pc' = "loop"
    /\ i' = NextI
    /\ j' = NextJ
    /\ UNCHANGED <<store_vars, task_id, force_redo, batch_size, stats,
                   processed_symbols, data, result, runs, obs>>

(***************************************************************************)
(* fetch_and_save_all, exit (a_stock.py 377-385).                           *)
(***************************************************************************)
Return ==
    /\ pc' = "idle"
    /\ result' = "returned"
    /\ force_redo' = FALSE
    /\ batch_size' = 1
    /\ i' = 0
    /\ j' = 0
    /\ processed_symbols' = {}
    /\ UNCHANGED <<task_id, stats, data, runs>>

\* the observations of a call that returned: the entity at hand is no more
Returned(o) ==
    [o EXCEPT !.run.last_symbol = 0,
              !.run.last_outcome = "none",
              !.run.stats0 = ZeroStats]

FinishOk ==
    /\ pc = "loop"
    /\ ~InLoop
    /\ IF task_id # NoTask
       THEN LET e == delete_task_progress
            IN  /\ txn' = e.txn
                /\ task_progress' = e.committed
                /\ obs' = [Returned(obs) EXCEPT !.run.deleted = TRUE]
       ELSE /\ obs' = Returned(obs)
            /\ UNCHANGED <<txn, task_progress>>
    /\ Return
    /\ UNCHANGED <<universe, engine, wrapper, calendar, runners, stock_hot, clock>>

\* delete_task_progress raises (379, 387-389)
FinishRaises ==
    /\ pc = "loop"
    /\ ~InLoop
    /\ task_id # NoTask
    /\ UNCHANGED runs
    /\ RunRaises("delete")

(***************************************************************************)
(* What cuts a call short.                                                  *)
(***************************************************************************)
CutShort(o) ==
    [o EXCEPT !.run = RunObs,
              !.stopped_task = task_id # NoTask,
              !.stop_set = IF task_id # NoTask
                           THEN load_task_progress.processed_symbols ELSE {}]

\* a KeyboardInterrupt passes every "except Exception" (a_stock.py 372, 387;
\* decorators.py 46): the call ends, the manager and its connection live on
Interrupt ==
    /\ pc # "idle"
    /\ result' = "interrupted"
    /\ obs' = CutShort(obs)
    /\ ResetRun
    /\ UNCHANGED <<store_vars, runs>>

\* the process is killed, or exits, and is started again: a new manager is
\* built (main.py 24-31) and what self.connection had not committed is gone
Restart ==
    /\ txn' = CleanTxn
    /\ result' = "killed"
    /\ obs' = IF pc # "idle" THEN CutShort(obs)
              ELSE [obs EXCEPT !.run = RunObs]
    /\ ResetRun
    /\ UNCHANGED <<universe, engine, wrapper, calendar, runners, task_progress, stock_hot, clock,
                   runs>>

(***************************************************************************)
(* The specification of the collection pipeline.                            *)
(***************************************************************************)
Universes == {[k \in 1..n |-> k] : n \in 0..MaxUniverse}

\* the arguments tried: one stock a batch or the whole universe in one batch;
\* force_redo only with a task_id, since without one no checkpoint is loaded
\* and no symbol of the universe is met twice (a_stock.py 326, 345)
BatchSizes == {1, MaxUniverse}
Arguments ==
    {a \in [task_id : {NoTask, TheTask}, force_redo : BOOLEAN,
            batch_size : BatchSizes] : a.force_redo => a.task_id # NoTask}

Init ==
    /\ universe \in Universes
    /\ task_progress = Absent
    /\ txn = CleanTxn
    /\ stock_hot = [s \in 1..Len(universe) |-> {}]
    /\ clock = 0
    /\ engine = EngineIdle
    /\ wrapper = NoWrapper
    /\ calendar = NoCalendar
    /\ runners = NoRunners
    /\ pc = "idle"
    /\ task_id = NoTask
    /\ force_redo = FALSE
    /\ batch_size = 1
    /\ i = 0
    /\ j = 0
    /\ stats = ZeroStats
    /\ processed_symbols = {}
    /\ data = <<>>
    /\ result = "none"
    /\ runs = 0
    /\ obs = ObsInit

Next ==
    \/ \E a \in Arguments : StartOk(a.task_id, a.force_redo, a.batch_size)
    \/ StartQueryRaises
    \/ StartLoadRaises
    \/ Skip
    \/ FetchRaises
    \/ FetchEmpty
    \/ FetchRows
    \/ StoreOk
    \/ StoreEnsureRaises
    \/ StoreUpsertRaises
    \/ CheckpointOk
    \/ CheckpointRaises
    \/ Sleep
    \/ FinishOk
    \/ FinishRaises
    \/ Interrupt
    \/ Restart

Spec == Init /\ [][Next]_vars

(***************************************************************************)
(* Properties of fetch_and_save_all, checked under Spec.                    *)
(***************************************************************************)
UniverseSet == {universe[k] : k \in 1..Len(universe)}

RECURSIVE SumRows(_)
SumRows(S) ==
    IF S = {} THEN 0
    ELSE LET s == CHOOSE x \in S : TRUE
         IN  Len(ProviderRows(s)) + SumRows(S \ {s})

\* the columns of a stored row that come from the provider
ProviderPart(t) ==
    [trade_date |-> t.trade_date, close |-> t.close,
     adjust_flag |-> t.adjust_flag]

ProviderRowSet(s) == {ProviderRows(s)[d] : d \in 1..Len(ProviderRows(s))}

\* the checkpoint the running call holds in memory
InMemory ==
    [present |-> TRUE, stats |-> stats,
     processed_symbols |-> processed_symbols, current_batch |-> i]

\* C1: resume correctness.  When a call with a task_id was cut short with the
\* stored checkpoint holding the set K of processed symbols, and the next
\* call with that task_id and force_redo false returns without any call
\* having raised, then it called fetch_history_data exactly for the symbols
\* of the universe outside K, marked none of K again, and K together with
\* what it marked is the universe.
C1_ResumeFetchesOnlyTheRest ==
    (result = "returned" /\ obs.run.resumed /\ ~obs.run.raised) =>
        /\ obs.run.fetch_calls = UniverseSet \ obs.stop_set
        /\ obs.run.marked \cap obs.stop_set = {}
        /\ obs.run.marked \cup obs.stop_set = UniverseSet

\* C2 as stated: once a call has returned, every symbol whose fetch returned
\* rows in it has exactly the provider's rows stored, one per trade_date.
C2_NoFetchedRowLost ==
    result = "returned" =>
        \A s \in obs.run.got_rows :
            /\ {ProviderPart(t) : t \in stock_hot[s]} = ProviderRowSet(s)
            /\ Cardinality(stock_hot[s]) = Len(ProviderRows(s))

\* C2 as the code has it: whatever calls ran, were cut short and started
\* again, a stock_hot table is either empty or holds exactly the provider's
\* rows of its symbol, one row per trade_date with the provider's values;
\* and once save_to_database has returned for a symbol its table holds them.
C2_StoredOncePerKey ==
    /\ \A s \in DOMAIN stock_hot :
          \/ stock_hot[s] = {}
          \/ /\ \A t \in stock_hot[s] :
                   /\ t.trade_date \in 1..RowsOf(s)
                   /\ ProviderPart(t) = ProviderRow(s, t.trade_date)
                   /\ \A u \in stock_hot[s] :
                         u.trade_date = t.trade_date => u = t
             /\ \A d \in 1..RowsOf(s) :
                   \E t \in stock_hot[s] : t.trade_date = d
    /\ obs.run.last_outcome = "stored" => stock_hot[obs.run.last_symbol] # {}

\* a call has returned with a row on store that an earlier call inserted
\* and a later call upserted again
C2_Witness ==
    /\ result = "returned"
    /\ \E s \in DOMAIN stock_hot :
          \E t \in stock_hot[s] : t.created_at < t.updated_at

\* C3: a call that was not seeded from a checkpoint and in which nothing
\* raised returns total = |U|, success = |S|, failed = |U| - |S|,
\* processed = |U| and records = the rows upserted for S, where S is the set
\* of symbols whose fetch returned rows; and with a task_id,
\* load_task_progress then finds no checkpoint.
C3_FreshRunStats ==
    (result = "returned" /\ ~obs.run.loaded /\ ~obs.run.raised) =>
        /\ stats = [total |-> Len(universe),
                    success |-> Cardinality(obs.run.got_rows),
                    failed |-> Len(universe) - Cardinality(obs.run.got_rows),
                    processed |-> Len(universe),
                    records |-> SumRows(obs.run.got_rows)]
        /\ task_id # NoTask => ~load_task_progress.present

\* the example of the specification: two symbols, 2 rows for the first and
\* none for the second
C3_Witness ==
    /\ result = "returned"
    /\ ~obs.run.loaded
    /\ ~obs.run.raised
    /\ task_id = TheTask
    /\ Len(universe) = 2
    /\ obs.run.got_rows = {1}
    /\ stats = [total |-> 2, success |-> 1, failed |-> 1, processed |-> 2,
                records |-> 2]

\* the loop takes the universe up in order: what it has taken up is a prefix
\* of the universe, and between two entities the loop stands at the symbol
\* that follows the prefix, or is over when the prefix is the universe
InUniverseOrder ==
    /\ Len(obs.run.visited) <= Len(universe)
    /\ obs.run.visited = SubSeq(universe, 1, Len(obs.run.visited))
    /\ pc = "loop" =>
          IF InLoop THEN symbol = universe[Len(obs.run.visited) + 1]
          ELSE obs.run.visited = universe

\* C4: when fetch_history_data or save_to_database has raised for an entity,
\* the call has counted one failure for it and nothing else, is still
\* running and stands at the next entity in universe order; a call that
\* returns has taken up the whole universe; and a call ends by raising only
\* when the universe query, the checkpoint load or the checkpoint delete
\* raised, never because of an entity.
C4_EntityFailureIsNotFatal ==
    /\ InUniverseOrder
    /\ obs.run.last_outcome \in {"fetch_raised", "store_raised"} =>
          /\ stats = [obs.run.stats0 EXCEPT !.failed = @ + 1]
          /\ pc = "loop"
          /\ result = "running"
          /\ obs.run.visited[Len(obs.run.visited)] = obs.run.last_symbol
    /\ result = "returned" => obs.run.visited = universe
    /\ result = "raised" => obs.run.infra_failed \in {"query", "load", "delete"}

\* save_to_database has raised for the first entity and a second one is left
C4_Witness ==
    /\ obs.run.last_outcome = "store_raised"
    /\ obs.run.last_symbol = 1
    /\ InLoop
    /\ symbol = 2

C7_CompletionLeavesNoCheckpoint ==
    /\ obs.run.deleted => obs.run.visited = universe
    /\ (result = "returned" /\ task_id # NoTask) =>
          /\ obs.run.deleted
          /\ ~load_task_progress.present

\* a call over two entities has returned after checkpoints were saved
C7_Witness ==
    /\ result = "returned"
    /\ task_id = TheTask
    /\ Len(universe) = 2
    /\ obs.run.marked = {1, 2}
    /\ ~obs.run.raised
    /\ txn.dirty
    /\ ~load_task_progress.present

\* C8: when the universe query, the checkpoint load or a checkpoint save has
\* raised, the call is over and has raised.
C8_RunLevelFailureAborts ==
    obs.run.infra_failed \in {"query", "load", "save"} =>
        /\ pc = "idle"
        /\ result = "raised"

\* C9: when the process is killed during a call with a task_id, the
\* checkpoint the new process loads is the one the call had saved last.
C9_CheckpointSurvivesKill ==
    (result = "killed" /\ obs.stopped_task) =>
        load_task_progress.processed_symbols = obs.stop_set

(***************************************************************************)
(* bulk_upsert called twice with the same rows (manager.py 347-401): the    *)
(* table is stock_hot[1], the rows are data, obs holds the arguments and    *)
(* what the first call returned and left.                                   *)
(***************************************************************************)
UpsertCloses == {1, 2}
UpsertFields == {"close", "adjust_flag"}

\* the row lists handed to bulk_upsert: any order, keys may repeat
RowLists ==
    UNION {[1..n -> [trade_date : 1..MaxDates, close : UpsertCloses,
                     adjust_flag : {0}]] : n \in 0..MaxRows}

\* the states of a table whose primary key is trade_date
TableStates ==
    {T \in SUBSET [trade_date : 1..MaxDates, close : UpsertCloses,
                   adjust_flag : {0, 1}, created_at : {0}, updated_at : {0}] :
        \A t, u \in T : t.trade_date = u.trade_date => t = u}

NoCall == [raised |-> FALSE, table |-> {}, count |-> 0]

UpsertInit ==
    /\ universe = <<1>>
    /\ task_progress = Absent
    /\ txn = CleanTxn
    /\ stock_hot \in [{1} -> TableStates]
    /\ clock = 1
    /\ engine = EngineIdle
    /\ wrapper = NoWrapper
    /\ calendar = NoCalendar
    /\ runners = NoRunners
    /\ pc = "call1"
    /\ task_id = NoTask
    /\ force_redo = FALSE
    /\ batch_size = 1
    /\ i = 0
    /\ j = 0
    /\ stats = ZeroStats
    /\ processed_symbols = {}
    /\ data \in RowLists
    /\ result = "none"
    /\ runs = 0
    /\ \E f \in SUBSET UpsertFields, g \in BOOLEAN :
          obs = [update_fields |-> f, has_trigger |-> g,
                 before |-> stock_hot[1], first |-> NoCall, second |-> NoCall]

\* one call bulk_upsert(table, data, update_fields); each call is a statement
\* of its own, so CURRENT_TIMESTAMP has moved on
UpsertCall(from, to, up) ==
    /\ pc = from
    /\ pc' = to
    /\ stock_hot' = [stock_hot EXCEPT ![1] = up.table]
    /\ clock' = clock + 1
    /\ UNCHANGED <<universe, engine, wrapper, calendar, runners, task_progress, txn, task_id, force_redo,
                   batch_size, i, j, stats, processed_symbols, data, result,
                   runs>>

UpsertOnce ==
    LET up == bulk_upsert(stock_hot[1], data, obs.update_fields,
                          obs.has_trigger, clock, TRUE)
    IN  /\ UpsertCall("call1", "call2", up)
        /\ obs' = [obs EXCEPT !.first = up]

UpsertAgain ==
    LET up == bulk_upsert(stock_hot[1], data, obs.update_fields,
                          obs.has_trigger, clock, TRUE)
    IN  /\ UpsertCall("call2", "done", up)
        /\ obs' = [obs EXCEPT !.second = up]

UpsertNext ==
    \/ UpsertOnce
    \/ UpsertAgain

SpecUpsert == UpsertInit /\ [][UpsertNext]_vars

\* a stored row without the column the trigger maintains
Unstamped(t) ==
    [trade_date |-> t.trade_date, close |-> t.close,
     adjust_flag |-> t.adjust_flag, created_at |-> t.created_at]

\* C10 as stated: for every table and every row list, with update_fields not
\* empty, the second bulk_upsert leaves the rows the first one left, and
\* both calls return the number of rows handed in.
C10_UpsertTwiceChangesNothing ==
    (pc = "done" /\ obs.update_fields # {}) =>
        /\ ~obs.first.raised
        /\ ~obs.second.raised
        /\ obs.first.count = Len(data)
        /\ obs.second.count = Len(data)
        /\ stock_hot[1] = obs.first.table

\* C10 as the code has it: for every table and every row list whose
\* trade_dates are pairwise distinct, with update_fields not empty, both
\* calls return the number of rows handed in, the table has one row per
\* trade_date, and the second call leaves every row as the first one left
\* it but for updated_at.
C10_UpsertTwiceSameRows ==
    (pc = "done" /\ obs.update_fields # {} /\ ~HasDuplicateKey(data)) =>
        /\ ~obs.first.raised
        /\ ~obs.second.raised
        /\ obs.first.count = Len(data)
        /\ obs.second.count = Len(data)
        /\ {Unstamped(t) : t \in stock_hot[1]} =
              {Unstamped(t) : t \in obs.first.table}
        /\ Cardinality({t.trade_date : t \in stock_hot[1]}) =
              Cardinality(stock_hot[1])
        /\ \A k \in 1..Len(data) :
              \E t \in stock_hot[1] : t.trade_date = data[k].trade_date

\* both calls are over for two rows of which the first call updated one and
\* inserted the other
C10_Witness ==
    /\ pc = "done"
    /\ "close" \in obs.update_fields
    /\ Len(data) = 2
    /\ ~HasDuplicateKey(data)
    /\ Cardinality(obs.before) = 1
    /\ \E t \in obs.before :
          \E k \in 1..2 : data[k].trade_date = t.trade_date
                          /\ data[k].close # t.close
    /\ Cardinality(stock_hot[1]) = 2

\* the row of table T stored under trade_date d
RowAt(T, d) == CHOOSE t \in T : t.trade_date = d

HasRow(T, d) == \E t \in T : t.trade_date = d

\* what the first call found and left for the incoming row r: the listed
\* columns hold the incoming values, the others the values of before (or, for
\* a new key, every column holds the incoming value)
FrameOf(r, stamped) ==
    /\ HasRow(stock_hot[1], r.trade_date)
    /\ LET t == RowAt(stock_hot[1], r.trade_date)
       IN  IF HasRow(obs.before, r.trade_date)
           THEN LET b == RowAt(obs.before, r.trade_date)
                IN  /\ t.close = IF "close" \in obs.update_fields
                                 THEN r.close ELSE b.close
                    /\ t.adjust_flag = IF "adjust_flag" \in obs.update_fields
                                       THEN r.adjust_flag ELSE b.adjust_flag
                    /\ t.created_at = b.created_at
                    /\ stamped => t.updated_at = b.updated_at
           ELSE /\ t.close = r.close
                /\ t.adjust_flag = r.adjust_flag

\* C11 as stated: after a bulk_upsert that returned, a row whose key was in
\* the table holds the incoming value in each column of update_fields and
\* the value it had before in every other column, updated_at included; a row
\* whose key was not in the table holds all its incoming values.
C11_UpsertKeepsUnlisted ==
    (pc = "call2" /\ ~obs.first.raised) =>
        \A k \in 1..Len(data) : FrameOf(data[k], TRUE)

\* C11 as the code has it: the same, but for updated_at, which the BEFORE
\* UPDATE trigger of the table, when it has one, sets to the time of the
\* call; and the rows whose key is not incoming are left as they were.
C11_UpsertFrame ==
    (pc = "call2" /\ ~obs.first.raised) =>
        /\ \A k \in 1..Len(data) :
              /\ FrameOf(data[k], FALSE)
              /\ HasRow(obs.before, data[k].trade_date) =>
                    RowAt(stock_hot[1], data[k].trade_date).updated_at =
                       IF obs.has_trigger THEN clock - 1
                       ELSE RowAt(obs.before, data[k].trade_date).updated_at
        /\ \A b \in obs.before :
              b.trade_date \notin KeysOf(data) => b \in stock_hot[1]

\* the call has overwritten close and kept adjust_flag = 1 in a row that was
\* there, and inserted another row
C11_Witness ==
    /\ pc = "call2"
    /\ ~obs.first.raised
    /\ obs.update_fields = {"close"}
    /\ Len(data) = 2
    /\ \E b \in obs.before, k \in 1..2 :
          /\ b.trade_date = data[k].trade_date
          /\ b.close # data[k].close
          /\ b.adjust_flag = 1
          /\ RowAt(stock_hot[1], b.trade_date).adjust_flag = 1
          /\ RowAt(stock_hot[1], b.trade_date).close = data[k].close
    /\ \E k \in 1..2 : ~HasRow(obs.before, data[k].trade_date)

(***************************************************************************)
(* The storage engine, one statement at a time.  A behaviour of SpecEngine  *)
(* is a sequence of calls on one DatabaseManager; each call runs from its   *)
(* argument checks through its statements to its return or its raise.  The  *)
(* target table is stock_hot[1]; engine.exists tells whether it exists for  *)
(* every connection, engine.session what self.connection has pending.  The  *)
(* clock stands still: timestamps are not looked at here.                    *)
(***************************************************************************)
EngineCloses == {2}

\* the data argument of the bulk methods
EngineRowLists == {R \in RowLists : \A k \in 1..Len(R) : R[k].close \in EngineCloses}

\* the target table before the first call
EngineTables ==
    {{[trade_date |-> d, close |-> 1, adjust_flag |-> 0,
       created_at |-> 0, updated_at |-> 0] : d \in D} : D \in SUBSET (1..MaxDates)}

EngineFrame ==
    UNCHANGED <<universe, task_progress, txn, clock, wrapper, calendar, runners,
                pc,
                task_id, force_redo, batch_size, i, j, stats,
                processed_symbols, result, runs, obs>>

\* a call may start when none is running
Callable == engine.call.at \in {"idle", "over"}

Began(op, update_fields, conditions, name) ==
    [NoCallAtHand EXCEPT !.op = op, !.at = "called",
                         !.update_fields = update_fields,
                         !.conditions = conditions, !.name = name,
                         !.pending = stock_hot[1], !.before = stock_hot[1],
                         !.was_there = engine.provisioned]

Did(c, done) == [c EXCEPT !.events = c.events \o done]

Returns(c, value) ==
    [c EXCEPT !.at = "over", !.outcome = "returned", !.value = value]

Raises(c, error) ==
    [c EXCEPT !.at = "over", !.outcome = "raised", !.error = error]

\* _get_connection leaving autocommit on
get_connection_autocommit(e, c, at) ==
    [e EXCEPT !.checked_out = e.checked_out + 1,
              !.call = [Did(c, <<"getconn">>) EXCEPT
                            !.conn = "pool", !.at = at, !.autocommit = TRUE]]

\* _get_connection up to its yield (manager.py 201-206): a connection
\* leaves the pool, with autocommit off
get_connection(e, c, at) ==
    [e EXCEPT !.checked_out = e.checked_out + 1,
              !.call = [Did(c, <<"getconn">>) EXCEPT
                            !.conn = "pool", !.at = at, !.autocommit = FALSE]]

\* bulk_upsert without the early return on empty data
BulkUpsertCallUnguarded ==
    /\ Callable
    /\ \E R \in EngineRowLists, update_fields \in SUBSET SaveUpdateFields :
        LET c == Began("bulk_upsert", update_fields, NoneGiven, NoName)
        IN  /\ data' = R
            /\ engine' =
                IF update_fields = {}
                THEN [engine EXCEPT !.call = Raises(c, "ValueError")]
                ELSE get_connection(engine, c, "stage")
    /\ UNCHANGED stock_hot
    /\ EngineFrame

\* bulk_upsert without the check of update_fields
BulkUpsertCallUnvalidated ==
    /\ Callable
    /\ \E R \in EngineRowLists, update_fields \in SUBSET SaveUpdateFields :
        LET c == Began("bulk_upsert", update_fields, NoneGiven, NoName)
        IN  /\ data' = R
            /\ engine' =
                IF Len(R) = 0
                THEN [engine EXCEPT !.call = Returns(c, 0)]
                ELSE get_connection(engine, c, "stage")
    /\ UNCHANGED stock_hot
    /\ EngineFrame

\* bulk_upsert up to its first statement (manager.py 347-359)
BulkUpsertCall ==
    /\ Callable
    /\ \E R \in EngineRowLists, update_fields \in SUBSET SaveUpdateFields :
        LET c == Began("bulk_upsert", update_fields, NoneGiven, NoName)
        IN  /\ data' = R
            /\ engine' =
                IF update_fields = {}
                THEN [engine EXCEPT !.call = Raises(c, "ValueError")]
                ELSE IF Len(R) = 0
                THEN [engine EXCEPT !.call = Returns(c, 0)]
                ELSE get_connection(engine, c, "stage")
    /\ UNCHANGED stock_hot
    /\ EngineFrame

\* bulk_insert up to its first statement (manager.py 306-315)
BulkInsertCall ==
    /\ Callable
    /\ \E R \in EngineRowLists :
        LET c == Began("bulk_insert", {}, NoneGiven, NoName)
        IN  /\ data' = R
            /\ engine' =
                IF Len(R) = 0
                THEN [engine EXCEPT !.call = Returns(c, 0)]
                ELSE get_connection(engine, c, "stage")
    /\ UNCHANGED stock_hot
    /\ EngineFrame

\* CREATE TEMP TABLE ... LIKE the target, then COPY into it
\* (manager.py 318-331, 361-374): needs the target to exist
StageOk ==
    /\ engine.call.at = "stage"
    /\ engine.exists
    /\ engine' = [engine EXCEPT
                    !.call = [Did(@, <<"statement">>) EXCEPT !.at = "merge"]]
    /\ UNCHANGED <<stock_hot, data>>
    /\ EngineFrame

StageRaises ==
    /\ engine.call.at = "stage"
    /\ engine' = [engine EXCEPT
                    !.call = [Did(@, <<"statement_failed">>) EXCEPT
                                  !.at = "failed"]]
    /\ UNCHANGED <<stock_hot, data>>
    /\ EngineFrame

\* INSERT ... ON CONFLICT DO NOTHING (manager.py 334-339): a row whose key
\* is in the table, or earlier in the data, is left out
InsertNew(table, R) ==
    table \cup
    {[trade_date |-> R[k].trade_date, close |-> R[k].close,
      adjust_flag |-> R[k].adjust_flag, created_at |-> clock,
      updated_at |-> clock] :
        k \in {n \in 1..Len(R) :
                  /\ R[n].trade_date \notin {t.trade_date : t \in table}
                  /\ \A m \in 1..(n - 1) : R[m].trade_date # R[n].trade_date}}

\* the INSERT ... SELECT of either bulk method
MergeOk ==
    /\ engine.call.at = "merge"
    /\ engine.call.op = "bulk_upsert" => ~HasDuplicateKey(data)
    /\ LET merged ==
               IF engine.call.op = "bulk_upsert"
               THEN Merge(engine.call.pending, data,
                          engine.call.update_fields, TRUE, clock)
               ELSE InsertNew(engine.call.pending, data)
       IN  /\ engine' = [engine EXCEPT
                    !.call = [Did(@, <<"statement">>) EXCEPT
                                  !.at = "commit", !.pending = merged]]
           /\ stock_hot' = IF engine.call.autocommit
                           THEN [stock_hot EXCEPT ![1] = merged]
                           ELSE stock_hot
    /\ UNCHANGED data
    /\ EngineFrame

MergeRaises ==
    /\ engine.call.at = "merge"
    /\ engine' = [engine EXCEPT
                    !.call = [Did(@, <<"statement_failed">>) EXCEPT
                                  !.at = "failed"]]
    /\ UNCHANGED <<stock_hot, data>>
    /\ EngineFrame

\* conn.commit() (manager.py 341, 396)
CommitOk ==
    /\ engine.call.at = "commit"
    /\ engine' = [engine EXCEPT
                    !.call = [Did(@, <<"commit">>) EXCEPT !.at = "exit"]]
    /\ stock_hot' = [stock_hot EXCEPT ![1] = engine.call.pending]
    /\ UNCHANGED data
    /\ EngineFrame

CommitRaises ==
    /\ engine.call.at = "commit"
    /\ engine' = [engine EXCEPT
                    !.call = [Did(@, <<"commit_failed">>) EXCEPT
                                  !.at = "failed"]]
    /\ UNCHANGED <<stock_hot, data>>
    /\ EngineFrame

\* return len(data) through the finally of _get_connection
\* (manager.py 342, 397, 211-212)
BulkReturn ==
    /\ engine.call.at = "exit"
    /\ engine' = [engine EXCEPT
                    !.checked_out = @ - 1,
                    !.call = Returns(Did(@, <<"putconn">>), Len(data))]
    /\ UNCHANGED <<stock_hot, data>>
    /\ EngineFrame

\* the except of the bulk method: conn.rollback(); raise
\* (manager.py 343-346, 398-401)
BulkRollback ==
    /\ engine.call.at = "failed"
    /\ engine' = [engine EXCEPT
                    !.call = [Did(@, <<"rollback">>) EXCEPT
                                  !.at = "unwind", !.pending = stock_hot[1]]]
    /\ UNCHANGED <<stock_hot, data>>
    /\ EngineFrame

\* the except and the finally of _get_connection (manager.py 207-212)
ConnectionExit ==
    /\ engine.call.at = "unwind"
    /\ engine' = [engine EXCEPT
                    !.checked_out = @ - 1,
                    !.call = Raises(Did(@, <<"rollback", "putconn">>),
                                    "DatabaseError")]
    /\ UNCHANGED <<stock_hot, data>>
    /\ EngineFrame

\* the characters of a string, by kind: A-Z a-z 0-9; a letter or a digit
\* outside ASCII; anything else
Chars == {"ascii_alnum", "other_alnum", "punctuation"}

\* str.isalnum: not empty, and every character a letter or a digit of
\* whatever script
isalnum(str) ==
    /\ Len(str) > 0
    /\ \A k \in 1..Len(str) : str[k] \in {"ascii_alnum", "other_alnum"}

\* the conditions of a delete
EngineConditions ==
    {NoneGiven} \cup
    {Dict({<<"trade_date", d>> : d \in D}) :
        D \in {E \in SUBSET (1..MaxDates) : Cardinality(E) <= 1}}

\* the table names ensure_table_exists is called with
EngineNames ==
    {[stock_hot |-> TRUE, symbol |-> <<"ascii_alnum">>],
     [stock_hot |-> TRUE, symbol |-> <<"punctuation">>],
     [stock_hot |-> TRUE, symbol |-> <<>>],
     [stock_hot |-> FALSE, symbol |-> <<"ascii_alnum">>]}

\* the methods that run one statement through self.execute
ExecuteOps ==
    {"query", "delete", "save_task_progress", "load_task_progress",
     "delete_task_progress"}

\* execute(..., fetch): delete passes fetch=False (manager.py 544-548), the
\* others leave or pass fetch=True
Fetch(op) == op # "delete"

(***************************************************************************)
(* The statement of a query.  A statement is a sequence of pieces: text     *)
(* the code writes itself ("fixed"), text of the caller quoted as an        *)
(* identifier by sql.Identifier ("identifier"), and text of the caller put  *)
(* in as it is by sql.SQL ("raw").  A value of the caller is a string too,  *)
(* so that it can be looked for in the statement.                           *)
(***************************************************************************)
Fixed(text) == [kind |-> "fixed", text |-> text]
Identifier(text) == [kind |-> "identifier", text |-> text]
Raw(text) == [kind |-> "raw", text |-> text]

\* the columns conditions may name, in the order the dict holds them
QueryColumns == <<"status", "symbol", "trade_date">>

\* the values of 'operator' a caller may pass
QueryOperators ==
    {"=", ">=", "BETWEEN", "between", "LIKE",
     "= 1; DROP TABLE stock_basic; --"}

\* str.upper on those
Upper(op) == IF op = "between" THEN "BETWEEN" ELSE op

\* a condition: a plain value, or a dict with 'operator' and 'value'; the
\* value is one value or a list of two
QueryValues ==
    {[list |-> FALSE, items |-> <<"v1">>],
     [list |-> TRUE, items |-> <<"v1", "v2">>]}

QueryPredicates ==
    {[pair |-> FALSE, operator |-> "None",
      value |-> [list |-> FALSE, items |-> <<"v1">>]]}
    \cup [pair : {TRUE}, operator : QueryOperators, value : QueryValues]

\* the conditions of a query: None, or a dict from columns to conditions
QueryConditions ==
    {NoneGiven} \cup
    {Dict({<<QueryColumns[k], f[k]>> : k \in DOMAIN f}) :
        f \in UNION {[K -> QueryPredicates] : K \in SUBSET (1..MaxColumns)}}

QueryArguments ==
    [fields : {<<>>, <<"close">>}, order_by : {"None", "trade_date"},
     limit : {"None", "0", "5"}]

\* one entry of where_clauses and what it adds to params (manager.py
\* 447-464)
WhereClause(col, val) ==
    IF val.pair /\ Upper(val.operator) = "BETWEEN" /\ val.value.list
    THEN [text |-> <<Identifier(col), Fixed("BETWEEN %s AND %s")>>,
          params |-> [k \in 1..Len(val.value.items) |->
                         [list |-> FALSE, items |-> <<val.value.items[k]>>]]]
    ELSE IF val.pair
    THEN [text |-> <<Identifier(col), Raw(val.operator), Fixed("%s")>>,
          params |-> <<val.value>>]
    ELSE [text |-> <<Identifier(col), Fixed("= %s")>>,
          params |-> <<val.value>>]

\* the condition of a column, where the dict has one
Has(conditions, col) == \E item \in conditions.items : item[1] = col
At(conditions, col) == (CHOOSE item \in conditions.items : item[1] = col)[2]

\* where_clauses joined by AND, and params, over the first n columns
RECURSIVE Where(_, _)
Where(conditions, n) ==
    IF n = 0 THEN [text |-> <<>>, params |-> <<>>]
    ELSE LET rest == Where(conditions, n - 1)
             col == QueryColumns[n]
         IN  IF ~Has(conditions, col) THEN rest
             ELSE LET clause == WhereClause(col, At(conditions, col))
                  IN  [text |-> rest.text
                                \o (IF rest.text = <<>> THEN <<>>
                                    ELSE <<Fixed("AND")>>)
                                \o clause.text,
                       params |-> rest.params \o clause.params]

\* the statement and the params of a query (manager.py 429-483)
Statement(conditions, arguments) ==
    LET select == <<Fixed("SELECT")>>
                  \o (IF arguments.fields = <<>> THEN <<Fixed("*")>>
                      ELSE [k \in 1..Len(arguments.fields) |->
                                Identifier(arguments.fields[k])])
                  \o <<Fixed("FROM"), Identifier("stock_basic")>>
        where == IF conditions.given /\ conditions.items # {}
                 THEN Where(conditions, Len(QueryColumns))
                 ELSE [text |-> <<>>, params |-> <<>>]
        order == IF arguments.order_by # "None"
                 THEN <<Fixed("ORDER BY"), Identifier(arguments.order_by),
                        Fixed("ASC")>>
                 ELSE <<>>
        limited == arguments.limit \notin {"None", "0"}
    IN  [text |-> select
                  \o (IF where.text = <<>> THEN <<>>
                      ELSE <<Fixed("WHERE")>> \o where.text)
                  \o order
                  \o (IF limited THEN <<Fixed("LIMIT %s")>> ELSE <<>>),
         params |-> where.params
                    \o (IF limited
                        THEN <<[list |-> FALSE, items |-> <<arguments.limit>>]>>
                        ELSE <<>>)]

\* query up to self.execute (manager.py 429-486): the call after it
query(c) ==
    LET built == Statement(c.conditions, c.arguments)
    IN  [c EXCEPT !.statement = built.text, !.params = built.params,
                  !.conn = "self", !.at = "execute"]

\* a query with table_name alone
QueryCall ==
    /\ Callable
    /\ engine' = [engine EXCEPT
            !.call = query(Began("query", {}, NoneGiven, NoName))]
    /\ data' = <<>>
    /\ UNCHANGED stock_hot
    /\ EngineFrame

\* delete deleting whatever its conditions
DeleteCallUnguarded ==
    /\ Callable
    /\ \E conditions \in EngineConditions :
        engine' = [engine EXCEPT
            !.call = [Began("delete", {}, conditions, NoName) EXCEPT
                          !.conn = "self", !.at = "execute"]]
    /\ data' = <<>>
    /\ UNCHANGED stock_hot
    /\ EngineFrame

\* delete up to self.execute (manager.py 525-541); what it raises is raised
\* again as DatabaseError (554-563)
DeleteCall ==
    /\ Callable
    /\ \E conditions \in EngineConditions :
        LET c == Began("delete", {}, conditions, NoName)
        IN  engine' =
                IF ~conditions.given \/ conditions.items = {}
                THEN [engine EXCEPT !.call = Raises(c, "DatabaseError")]
                ELSE [engine EXCEPT
                        !.call = [c EXCEPT !.conn = "self", !.at = "execute"]]
    /\ data' = <<>>
    /\ UNCHANGED stock_hot
    /\ EngineFrame

\* save_task_progress, load_task_progress, delete_task_progress up to
\* self.execute (manager.py 565-599)
CheckpointCall ==
    /\ Callable
    /\ \E op \in ExecuteOps \ {"query", "delete"} :
        engine' = [engine EXCEPT
            !.call = [Began(op, {}, NoneGiven, NoName) EXCEPT
                          !.conn = "self", !.at = "execute"]]
    /\ data' = <<>>
    /\ UNCHANGED stock_hot
    /\ EngineFrame

\* the rows a DELETE ... WHERE takes away
Matching(table, conditions) ==
    {t \in table : \A item \in conditions.items : t.trade_date = item[2]}

\* execute running its statement (manager.py 236-249): with fetch=False it
\* commits self.connection, and all that was pending on it
ExecuteOk ==
    /\ engine.call.at = "execute"
    /\ engine.call.op \in {"query", "delete"} => engine.session.exists
    /\ LET gone == IF engine.call.op = "delete"
                   THEN Matching(stock_hot[1], engine.call.conditions)
                   ELSE {}
       IN  /\ stock_hot' = [stock_hot EXCEPT ![1] = @ \ gone]
           /\ engine' =
                IF Fetch(engine.call.op)
                THEN [engine EXCEPT
                        !.session.dirty = TRUE,
                        !.call = Returns(Did(@, <<"statement">>), 0)]
                ELSE [engine EXCEPT
                        !.session.dirty = FALSE,
                        !.exists = engine.session.exists,
                        !.call = Returns(Did(@, <<"statement", "commit">>),
                                         Cardinality(gone))]
    /\ UNCHANGED data
    /\ EngineFrame

\* execute when its statement fails (manager.py 251-255): rollback of
\* self.connection, DatabaseError
ExecuteRaises ==
    /\ engine.call.at \in {"execute", "check", "create"}
    /\ engine' = [engine EXCEPT
            !.session = [dirty |-> FALSE, exists |-> engine.exists],
            !.call = Raises(Did(@, <<"statement_failed", "rollback">>),
                            "DatabaseError")]
    /\ UNCHANGED <<stock_hot, data>>
    /\ EngineFrame

\* ensure_table_exists up to its first statement (manager.py 257-262, 278)
EnsureCall ==
    /\ Callable
    /\ \E name \in EngineNames :
        LET c == Began("ensure_table_exists", {}, NoneGiven, name)
        IN  engine' =
                IF ~name.stock_hot
                THEN [engine EXCEPT !.call = Raises(c, "ValueError")]
                ELSE IF ~isalnum(name.symbol)
                THEN [engine EXCEPT !.call = Raises(c, "InvalidSymbolError")]
                ELSE [engine EXCEPT
                        !.call = [c EXCEPT !.conn = "self", !.at = "check"]]
    /\ data' = <<>>
    /\ UNCHANGED stock_hot
    /\ EngineFrame

\* SELECT EXISTS (...) through execute with fetch=True, and return False
\* when the table is there (manager.py 264-277)
EnsureCheckOk ==
    /\ engine.call.at = "check"
    /\ engine' =
        IF engine.session.exists
        THEN [engine EXCEPT
                !.session.dirty = TRUE,
                !.provisioned = TRUE,
                !.call = Returns(Did(@, <<"statement">>), FALSE)]
        ELSE [engine EXCEPT
                !.session.dirty = TRUE,
                !.call = [Did(@, <<"statement">>) EXCEPT !.at = "create"]]
    /\ UNCHANGED <<stock_hot, data>>
    /\ EngineFrame

\* SELECT create_stock_hot_table(%s) through execute with the default
\* fetch=True, so without a commit, and return True (manager.py 273-276)
EnsureCreateOk ==
    /\ engine.call.at = "create"
    /\ engine' = [engine EXCEPT
            !.session = [dirty |-> TRUE, exists |-> TRUE],
            !.provisioned = TRUE,
            !.call = Returns(Did(@, <<"statement">>), TRUE)]
    /\ UNCHANGED <<stock_hot, data>>
    /\ EngineFrame

EngineInit ==
    /\ universe = <<1>>
    /\ task_progress = Absent
    /\ txn = CleanTxn
    /\ stock_hot \in [{1} -> EngineTables]
    /\ clock = 0
    /\ \E exists \in BOOLEAN :
        engine = [EngineIdle EXCEPT
                    !.exists = exists,
                    !.session = [dirty |-> FALSE, exists |-> exists]]
    /\ wrapper = NoWrapper
    /\ calendar = NoCalendar
    /\ runners = NoRunners
    /\ pc = "engine"
    /\ task_id = NoTask
    /\ force_redo = FALSE
    /\ batch_size = 1
    /\ i = 0
    /\ j = 0
    /\ stats = ZeroStats
    /\ processed_symbols = {}
    /\ data = <<>>
    /\ result = "none"
    /\ runs = 0
    /\ obs = ObsInit

EngineNext ==
    \/ BulkUpsertCall
    \/ BulkInsertCall
    \/ StageOk
    \/ StageRaises
    \/ MergeOk
    \/ MergeRaises
    \/ CommitOk
    \/ CommitRaises
    \/ BulkReturn
    \/ BulkRollback
    \/ ConnectionExit
    \/ QueryCall
    \/ DeleteCall
    \/ CheckpointCall
    \/ ExecuteOk
    \/ ExecuteRaises
    \/ EnsureCall
    \/ EnsureCheckOk
    \/ EnsureCreateOk

SpecEngine == EngineInit /\ [][EngineNext]_vars

\* what the call at hand did, as a set
Done == {engine.call.events[k] : k \in 1..Len(engine.call.events)}

FailedInside == Done \cap {"statement_failed", "commit_failed"} # {}

(***************************************************************************)
(* C12: bulk_upsert is all-or-nothing.  When the staging, the merge or the  *)
(* commit of a call fails, the target table holds exactly the rows it held  *)
(* when the call was made, from the failure on, and the call ends by        *)
(* raising.  Until a call commits the table holds the rows it held before.  *)
(***************************************************************************)
C12_UpsertAllOrNothing ==
    engine.call.op = "bulk_upsert" =>
        /\ (FailedInside \/ engine.call.outcome = "raised"
                \/ "commit" \notin Done)
            => stock_hot[1] = engine.call.before
        /\ (FailedInside /\ engine.call.at = "over")
            => engine.call.outcome = "raised"

\* a call whose merge had changed rows and whose commit then failed
C12_Witness ==
    /\ engine.call.op = "bulk_upsert"
    /\ engine.call.outcome = "raised"
    /\ engine.call.events = <<"getconn", "statement", "statement",
                              "commit_failed", "rollback", "rollback",
                              "putconn">>
    /\ Merge(engine.call.before, data, engine.call.update_fields, TRUE, clock)
           # engine.call.before
    /\ engine.call.before # {}

(***************************************************************************)
(* C13 as stated: a bulk_upsert with an empty list of rows returns 0,       *)
(* raises nothing, takes no connection from the pool and leaves the table   *)
(* as it was, whatever its update_fields.                                   *)
(***************************************************************************)
C13_EmptyRowsNoOp ==
    (engine.call.op = "bulk_upsert" /\ Len(data) = 0) =>
        /\ engine.call.at = "over"
        /\ engine.call.outcome = "returned"
        /\ engine.call.value = 0
        /\ engine.call.events = <<>>
        /\ engine.checked_out = 0
        /\ stock_hot[1] = engine.call.before

(***************************************************************************)
(* C13, amended: a bulk_upsert with an empty list of rows and a non-empty   *)
(* update_fields returns 0, raises nothing, takes no connection from the    *)
(* pool and leaves the table as it was.                                     *)
(***************************************************************************)
C13_EmptyRowsNoOpWhenFieldsGiven ==
    (engine.call.op = "bulk_upsert" /\ Len(data) = 0
        /\ engine.call.update_fields # {}) =>
        /\ engine.call.at = "over"
        /\ engine.call.outcome = "returned"
        /\ engine.call.value = 0
        /\ engine.call.events = <<>>
        /\ engine.checked_out = 0
        /\ stock_hot[1] = engine.call.before

C13_Witness ==
    /\ engine.call.op = "bulk_upsert"
    /\ Len(data) = 0
    /\ engine.call.update_fields # {}
    /\ engine.call.outcome = "returned"
    /\ stock_hot[1] # {}

(***************************************************************************)
(* C14: a bulk_upsert with an empty update_fields raises ValueError, with   *)
(* rows or without, before it takes a connection from the pool or issues a  *)
(* statement; the table is as it was.                                       *)
(***************************************************************************)
C14_EmptyFieldsRejected ==
    (engine.call.op = "bulk_upsert" /\ engine.call.update_fields = {}) =>
        /\ engine.call.at = "over"
        /\ engine.call.outcome = "raised"
        /\ engine.call.error = "ValueError"
        /\ engine.call.events = <<>>
        /\ engine.checked_out = 0
        /\ stock_hot[1] = engine.call.before

C14_Witness ==
    /\ engine.call.op = "bulk_upsert"
    /\ engine.call.update_fields = {}
    /\ Len(data) > 0
    /\ engine.call.outcome = "raised"
    /\ engine.exists

\* SimpleConnectionPool(minconn=1, maxconn=10) (manager.py 76-78)
maxconn == 10

\* a call is between its argument checks and its return or raise
Running == ~Callable

(***************************************************************************)
(* C15: each storage method holds exactly one connection of the pool while  *)
(* it runs; between calls no connection is checked out, and the number of   *)
(* connections checked out never exceeds the maximum of the pool.           *)
(***************************************************************************)
C15_OnePooledConnection ==
    /\ engine.checked_out <= maxconn
    /\ Callable => engine.checked_out = 0
    /\ Running => (engine.checked_out = 1 /\ engine.call.conn = "pool")

(***************************************************************************)
(* C16: when a statement fails inside bulk_upsert, bulk_insert, query or    *)
(* delete, the call rolls its transaction back, then gives its connection   *)
(* back to the pool, and then raises DatabaseError: of what the call did,   *)
(* the last rollback comes after the failure and the release of the         *)
(* connection comes last.                                                   *)
(***************************************************************************)
C16_RollbackReleaseRaise ==
    (engine.call.op \in {"bulk_upsert", "bulk_insert", "query", "delete"}
        /\ engine.call.at = "over" /\ FailedInside) =>
        /\ engine.call.outcome = "raised"
        /\ engine.call.error = "DatabaseError"
        /\ \E f, r \in 1..Len(engine.call.events) :
            /\ engine.call.events[f] \in {"statement_failed", "commit_failed"}
            /\ f < r
            /\ engine.call.events[r] = "rollback"
            /\ r + 1 = Len(engine.call.events)
            /\ engine.call.events[r + 1] = "putconn"

(***************************************************************************)
(* C17: a delete whose conditions are None or an empty dict raises without  *)
(* issuing a statement, and the table keeps every row.                      *)
(***************************************************************************)
C17_DeleteNeedsConditions ==
    (engine.call.op = "delete"
        /\ (~engine.call.conditions.given \/ engine.call.conditions.items = {}))
    =>  /\ engine.call.at = "over"
        /\ engine.call.outcome = "raised"
        /\ engine.call.events = <<>>
        /\ stock_hot[1] = engine.call.before

\* a delete with an empty dict on a table that has rows and that
\* self.connection can see
C17_Witness ==
    /\ engine.call.op = "delete"
    /\ engine.call.conditions = Dict({})
    /\ engine.call.outcome = "raised"
    /\ engine.session.exists
    /\ stock_hot[1] # {}

(***************************************************************************)
(* C20: ensure_table_exists is idempotent.  A call that finds no table      *)
(* returns True; after a call that returned the table exists, as the        *)
(* connection of the call sees it; a call made after an earlier call has    *)
(* returned returns False and leaves the rows alone; a name whose symbol    *)
(* fails the check raises InvalidSymbolError with no statement issued.      *)
(***************************************************************************)
C20_EnsureIdempotent ==
    engine.call.op = "ensure_table_exists" =>
        /\ engine.call.outcome = "returned" =>
            /\ engine.session.exists
            /\ stock_hot[1] = engine.call.before
            /\ engine.call.was_there => engine.call.value = FALSE
        /\ (engine.call.name.stock_hot /\ ~isalnum(engine.call.name.symbol)) =>
            /\ engine.call.outcome = "raised"
            /\ engine.call.error = "InvalidSymbolError"
            /\ engine.call.events = <<>>

(***************************************************************************)
(* The validators of symbols.  A behaviour of SpecValidate takes one        *)
(* string and hands it to validate_symbol and to get_stock_table_name.      *)
(***************************************************************************)
SymbolStrings == UNION {[1..n -> Chars] : n \in 0..MaxSymbolLen}

\* len(symbol) == 6 (helpers.py 33)
SymbolLen == 6

\* validate_symbol (helpers.py 31-33)
validate_symbol(str) == isalnum(str) /\ Len(str) = SymbolLen

\* get_stock_table_name (manager.py 281-285): the call after it
get_stock_table_name(c) ==
    IF ~isalnum(c.name.symbol)
    THEN Raises(c, "InvalidSymbolError")
    ELSE Returns(c, [stock_hot |-> TRUE, symbol |-> c.name.symbol])

ValidateInit ==
    /\ universe = <<1>>
    /\ task_progress = Absent
    /\ txn = CleanTxn
    /\ stock_hot = [s \in {1} |-> {}]
    /\ clock = 0
    /\ \E str \in SymbolStrings :
        engine = [EngineIdle EXCEPT
                    !.call.name = [stock_hot |-> FALSE, symbol |-> str]]
    /\ wrapper = NoWrapper
    /\ calendar = NoCalendar
    /\ runners = NoRunners
    /\ pc = "validate"
    /\ task_id = NoTask
    /\ force_redo = FALSE
    /\ batch_size = 1
    /\ i = 0
    /\ j = 0
    /\ stats = ZeroStats
    /\ processed_symbols = {}
    /\ data = <<>>
    /\ result = "none"
    /\ runs = 0
    /\ obs = ObsInit

ValidateSymbolCall ==
    /\ Callable
    /\ LET c == Began("validate_symbol", {}, NoneGiven, engine.call.name)
       IN  engine' = [engine EXCEPT
                        !.call = Returns(c, validate_symbol(c.name.symbol))]
    /\ UNCHANGED <<stock_hot, data>>
    /\ EngineFrame

TableNameCall ==
    /\ Callable
    /\ LET c == Began("get_stock_table_name", {}, NoneGiven, engine.call.name)
       IN  engine' = [engine EXCEPT !.call = get_stock_table_name(c)]
    /\ UNCHANGED <<stock_hot, data>>
    /\ EngineFrame

ValidateNext ==
    \/ ValidateSymbolCall
    \/ TableNameCall

SpecValidate == ValidateInit /\ [][ValidateNext]_vars

\* every character of the string is one of A-Z a-z 0-9
Whitelisted(str) == \A k \in 1..Len(str) : str[k] = "ascii_alnum"

(***************************************************************************)
(* C19: validate_symbol(s) is true exactly when s is 6 characters, each of  *)
(* A-Z a-z 0-9, and get_stock_table_name(s) raises InvalidSymbolError for   *)
(* every s that has a character outside A-Z a-z 0-9.                        *)
(***************************************************************************)
C19_ValidatorWhitelist ==
    /\ (engine.call.op = "validate_symbol" /\ engine.call.at = "over") =>
        (engine.call.value <=>
            (Len(engine.call.name.symbol) = SymbolLen
                /\ Whitelisted(engine.call.name.symbol)))
    /\ (engine.call.op = "get_stock_table_name" /\ engine.call.at = "over"
            /\ ~Whitelisted(engine.call.name.symbol)) =>
        (engine.call.outcome = "raised"
            /\ engine.call.error = "InvalidSymbolError")

(***************************************************************************)
(* The statements of query.  A behaviour of SpecQuery takes the arguments   *)
(* of one query, builds its statement and runs it.                          *)
(***************************************************************************)
QueryInit ==
    /\ universe = <<1>>
    /\ task_progress = Absent
    /\ txn = CleanTxn
    /\ stock_hot = [s \in {1} |-> {}]
    /\ clock = 0
    /\ \E conditions \in QueryConditions, arguments \in QueryArguments :
        engine = [EngineIdle EXCEPT
                    !.call.conditions = conditions,
                    !.call.arguments = arguments]
    /\ wrapper = NoWrapper
    /\ calendar = NoCalendar
    /\ runners = NoRunners
    /\ pc = "query"
    /\ task_id = NoTask
    /\ force_redo = FALSE
    /\ batch_size = 1
    /\ i = 0
    /\ j = 0
    /\ stats = ZeroStats
    /\ processed_symbols = {}
    /\ data = <<>>
    /\ result = "none"
    /\ runs = 0
    /\ obs = ObsInit

\* the query of the arguments at hand
QueryWithCall ==
    /\ engine.call.at = "idle"
    /\ engine' = [engine EXCEPT
            !.call = query([Began("query", {}, engine.call.conditions, NoName)
                               EXCEPT !.arguments = engine.call.arguments])]
    /\ UNCHANGED <<stock_hot, data>>
    /\ EngineFrame

QueryNext ==
    \/ QueryWithCall
    \/ ExecuteOk
    \/ ExecuteRaises

SpecQuery == QueryInit /\ [][QueryNext]_vars

\* the operators a condition may use
SupportedOperators == {"=", "<", ">", "<=", ">=", "BETWEEN"}

\* the values the caller passed, and the limit
PassedValues ==
    UNION {{item[2].value.items[k] : k \in 1..Len(item[2].value.items)} :
              item \in engine.call.conditions.items}
    \cup ({engine.call.arguments.limit} \ {"None"})

(***************************************************************************)
(* C18: the statement of a query holds no text of the caller but quoted     *)
(* identifiers and supported operators (=, <, >, <=, >=, BETWEEN); a        *)
(* condition with another operator makes the query raise before a           *)
(* statement runs; no value and no limit is text of the statement.          *)
(***************************************************************************)
C18_OnlySafeStatements ==
    (engine.call.op = "query" /\ engine.call.at # "idle") =>
        /\ \A k \in 1..Len(engine.call.statement) :
            /\ engine.call.statement[k].kind = "raw" =>
                Upper(engine.call.statement[k].text) \in SupportedOperators
            /\ engine.call.statement[k].text \notin PassedValues
        /\ (\E item \in engine.call.conditions.items :
                item[2].pair
                    /\ Upper(item[2].operator) \notin SupportedOperators) =>
            (engine.call.outcome = "raised" /\ engine.call.events = <<>>)

(***************************************************************************)
(* The retry decorator (decorators.py 22-56).  A behaviour of SpecRetry is  *)
(* one call of a wrapped function: a function that may return or raise at   *)
(* each invocation, under any max_retries and either set of exceptions, or  *)
(* fetch_history_data under the decorator it carries (a_stock.py 104).      *)
(***************************************************************************)
\* the errors an invocation may raise
ErrorKinds == {"ValueError", "ConnectionError", "KeyboardInterrupt"}

\* issubclass, on those: KeyboardInterrupt is no Exception
IsSubclass(e, class) ==
    \/ e = class
    \/ class = "Exception" /\ e \in {"ValueError", "ConnectionError"}

\* except exceptions as e catching everything
CaughtAlways(e, exceptions) == TRUE

\* except exceptions as e (decorators.py 46)
Caught(e, exceptions) == \E class \in exceptions : IsSubclass(e, class)

\* the exceptions argument: the default, or one class
ExceptionSets == {{"Exception"}, {"ConnectionError"}}

\* the symbols fetch_history_data is called with: six characters of
\* A-Z a-z 0-9, and one with punctuation
RetrySymbols ==
    {[k \in 1..SymbolLen |-> "ascii_alnum"],
     [k \in 1..SymbolLen |-> IF k = 1 THEN "punctuation" ELSE "ascii_alnum"]}

\* @retry(max_retries=3, delay=1) on fetch_history_data (a_stock.py 104)
FetchRetries == 3

RetryFrame ==
    UNCHANGED <<universe, task_progress, txn, stock_hot, clock, engine,
                calendar, runners, pc, task_id, force_redo, batch_size, i, j, stats,
                processed_symbols, data, result, runs, obs>>

RetryInit ==
    /\ universe = <<1>>
    /\ task_progress = Absent
    /\ txn = CleanTxn
    /\ stock_hot = [s \in {1} |-> {}]
    /\ clock = 0
    /\ engine = EngineIdle
    /\ \/ \E max_retries \in 0..MaxRetries, exceptions \in ExceptionSets :
            wrapper = [NoWrapper EXCEPT !.func = "func",
                                        !.max_retries = max_retries,
                                        !.exceptions = exceptions]
       \/ \E str \in RetrySymbols :
            wrapper = [NoWrapper EXCEPT !.func = "fetch_history_data",
                                        !.symbol = str,
                                        !.max_retries = FetchRetries,
                                        !.exceptions = {"Exception"}]
    /\ calendar = NoCalendar
    /\ runners = NoRunners
    /\ pc = "retry"
    /\ task_id = NoTask
    /\ force_redo = FALSE
    /\ batch_size = 1
    /\ i = 0
    /\ j = 0
    /\ stats = ZeroStats
    /\ processed_symbols = {}
    /\ data = <<>>
    /\ result = "none"
    /\ runs = 0
    /\ obs = ObsInit

\* wrapper entered (decorators.py 41-43): the loop runs from attempt 1, and
\* with no attempt to make the raise of line 54 raises None, a TypeError
WrapperCall ==
    /\ wrapper.at = "idle"
    /\ wrapper' =
        IF wrapper.max_retries >= 1
        THEN [wrapper EXCEPT !.at = "try", !.attempt = 1]
        ELSE [wrapper EXCEPT !.at = "over", !.outcome = "raised",
                             !.error = "TypeError"]
    /\ RetryFrame

\* the invocation returns (decorators.py 45); fetch_history_data has called
\* the provider (a_stock.py 121-135), which it does for a valid symbol only
FuncReturns ==
    /\ wrapper.at = "try"
    /\ wrapper.func = "fetch_history_data" => validate_symbol(wrapper.symbol)
    /\ wrapper' = [wrapper EXCEPT
            !.at = "over", !.outcome = "returned",
            !.trace = Append(@, "returned"),
            !.provider_calls =
                IF wrapper.func = "fetch_history_data" THEN @ + 1 ELSE @]
    /\ RetryFrame

\* the errors the invocation at hand may raise: fetch_history_data raises
\* ValueError on a symbol that fails validate_symbol, before it calls the
\* provider (a_stock.py 113-115), and whatever the provider raises otherwise
MayRaise ==
    IF wrapper.func = "fetch_history_data" /\ ~validate_symbol(wrapper.symbol)
    THEN {"ValueError"}
    ELSE ErrorKinds

\* what follows an invocation that raised e, with the loop running while
\* attempt <= max_retries
AfterRaiseOnceMore(w, e) ==
    IF ~Caught(e, w.exceptions)
    THEN [w EXCEPT !.at = "over", !.outcome = "raised", !.error = e]
    ELSE IF w.attempt <= w.max_retries
    THEN [w EXCEPT !.last_exception = e, !.at = "sleep"]
    ELSE [w EXCEPT !.last_exception = e, !.at = "over",
                   !.outcome = "raised", !.error = e]

\* what follows an invocation that raised e (decorators.py 46-54): an error
\* that is not caught leaves the wrapper; a caught one is kept, and is
\* followed by a wait if attempts are left, by the raise of line 54 if not
AfterRaise(w, e) ==
    IF ~Caught(e, w.exceptions)
    THEN [w EXCEPT !.at = "over", !.outcome = "raised", !.error = e]
    ELSE IF w.attempt < w.max_retries
    THEN [w EXCEPT !.last_exception = e, !.at = "sleep"]
    ELSE [w EXCEPT !.last_exception = e, !.at = "over",
                   !.outcome = "raised", !.error = e]

\* the invocation raises
FuncRaises ==
    /\ wrapper.at = "try"
    /\ \E e \in MayRaise :
        wrapper' = AfterRaise(
            [wrapper EXCEPT
                !.trace = Append(@, e),
                !.provider_calls =
                    IF wrapper.func = "fetch_history_data"
                        /\ validate_symbol(wrapper.symbol)
                    THEN @ + 1 ELSE @], e)
    /\ RetryFrame

\* time.sleep(sleep_time), then the next attempt (decorators.py 52-53, 43)
Backoff ==
    /\ wrapper.at = "sleep"
    /\ wrapper' = [wrapper EXCEPT !.at = "try", !.attempt = @ + 1,
                                  !.trace = Append(@, "wait")]
    /\ RetryFrame

RetryNext ==
    \/ WrapperCall
    \/ FuncReturns
    \/ FuncRaises
    \/ Backoff

SpecRetry == RetryInit /\ [][RetryNext]_vars

\* the invocations of the call at hand, and its waits
Invocations == {k \in 1..Len(wrapper.trace) : wrapper.trace[k] # "wait"}
Waits == {k \in 1..Len(wrapper.trace) : wrapper.trace[k] = "wait"}

\* the error is of the retryable set the decorator was configured with
Retryable(e) ==
    \/ e \in wrapper.exceptions
    \/ "Exception" \in wrapper.exceptions /\ e # "KeyboardInterrupt"

(***************************************************************************)
(* C21: fetch_history_data called with a symbol that fails validation       *)
(* raises at its first attempt: its body ran once, no wait happened and no  *)
(* call of the provider was made.                                           *)
(***************************************************************************)
C21_ValidationNotRetried ==
    (wrapper.func = "fetch_history_data" /\ ~validate_symbol(wrapper.symbol)
        /\ wrapper.at # "idle") =>
        /\ Len(wrapper.trace) <= 1
        /\ wrapper.provider_calls = 0
        /\ wrapper.trace # <<>> =>
            (wrapper.at = "over" /\ wrapper.outcome = "raised")

(***************************************************************************)
(* C22: with max_retries >= 1, a call whose every invocation failed with a  *)
(* caught error is over after exactly max_retries invocations, with a wait  *)
(* between two invocations and none after the last, and raises the error    *)
(* of the last invocation.                                                  *)
(***************************************************************************)
C22_RetryExhaustion ==
    (wrapper.at = "over" /\ wrapper.max_retries >= 1
        /\ \A k \in Invocations :
                wrapper.trace[k] # "returned" /\ Retryable(wrapper.trace[k]))
    =>  /\ Cardinality(Invocations) = wrapper.max_retries
        /\ Len(wrapper.trace) = 2 * wrapper.max_retries - 1
        /\ \A k \in 1..Len(wrapper.trace) : (k \in Waits) <=> (k % 2 = 0)
        /\ wrapper.outcome = "raised"
        /\ wrapper.error = wrapper.trace[Len(wrapper.trace)]

\* three invocations that failed with different errors
C22_Witness ==
    /\ wrapper.at = "over"
    /\ wrapper.func = "func"
    /\ wrapper.max_retries = 3
    /\ wrapper.trace = <<"ConnectionError", "wait", "ConnectionError",
                         "wait", "ValueError">>
    /\ wrapper.error = "ValueError"

(***************************************************************************)
(* C23: an invocation that raises an error the decorator does not catch     *)
(* ends the call at once: that error is raised, it is the last entry of     *)
(* the trace, the invocations made are as many as the attempts, and no      *)
(* wait or invocation follows.                                              *)
(***************************************************************************)
C23_UncaughtNotRetried ==
    \A k \in Invocations :
        (wrapper.trace[k] # "returned" /\ ~Retryable(wrapper.trace[k])) =>
            /\ k = Len(wrapper.trace)
            /\ wrapper.at = "over"
            /\ wrapper.outcome = "raised"
            /\ wrapper.error = wrapper.trace[k]
            /\ Cardinality(Invocations) = wrapper.attempt

\* an uncaught error at the second attempt
C23_Witness ==
    /\ wrapper.at = "over"
    /\ wrapper.exceptions = {"ConnectionError"}
    /\ wrapper.max_retries = 3
    /\ wrapper.trace = <<"ConnectionError", "wait", "ValueError">>
    /\ wrapper.error = "ValueError"

(***************************************************************************)
(* The checkpoint store.  A behaviour of SpecCheckpoint is a sequence of    *)
(* save_task_progress, load_task_progress and delete_task_progress calls    *)
(* of one DatabaseManager on two task ids.  task_progress is the committed  *)
(* table, a blob or "None" for each task id, and txn.row the table as       *)
(* self.connection has it while txn.dirty.  Each call is one execute, which *)
(* may fail; a progress_data that cannot be turned into JSON fails it.      *)
(***************************************************************************)
TaskIds == {"t1", "t2"}
Blobs == {"b1", "b2"}

\* what the properties are stated on: the blob the calls so far should
\* have left for each task id, and the call made last
CheckpointObs(expected, op, task, outcome, value) ==
    [expected |-> expected, op |-> op, task |-> task, outcome |-> outcome,
     value |-> value]

CheckpointInit ==
    /\ universe = <<1>>
    /\ task_progress \in [TaskIds -> Blobs \cup {"None"}]
    /\ txn = CleanTxn
    /\ stock_hot = [s \in {1} |-> {}]
    /\ clock = 0
    /\ engine = EngineIdle
    /\ wrapper = NoWrapper
    /\ calendar = NoCalendar
    /\ runners = NoRunners
    /\ pc = "checkpoint"
    /\ task_id = NoTask
    /\ force_redo = FALSE
    /\ batch_size = 1
    /\ i = 0
    /\ j = 0
    /\ stats = ZeroStats
    /\ processed_symbols = {}
    /\ data = <<>>
    /\ result = "none"
    /\ runs = 0
    /\ obs = CheckpointObs(task_progress, "none", "t1", "none", "None")

CheckpointFrame ==
    UNCHANGED <<universe, stock_hot, clock, engine, wrapper, calendar, runners,
                pc,
                task_id,
                force_redo, batch_size, i, j, stats, processed_symbols, data,
                result, runs>>

\* a statement on the table through execute with fetch=True
\* (manager.py 236-249)
Executed(table) ==
    /\ txn' = execute(TRUE, txn, task_progress, table).txn
    /\ task_progress' = execute(TRUE, txn, task_progress, table).committed

\* save_task_progress (manager.py 565-578): INSERT ... ON CONFLICT (task_id)
\* DO UPDATE SET progress_data = EXCLUDED.progress_data
SaveOk ==
    /\ \E t \in TaskIds, b \in Blobs :
        /\ Executed([load_task_progress EXCEPT ![t] = b])
        /\ obs' = CheckpointObs([obs.expected EXCEPT ![t] = b],
                                "save", t, "returned", "None")
    /\ CheckpointFrame

\* load_task_progress (manager.py 580-588): the SELECT sees what
\* self.connection has pending
LoadOk ==
    /\ \E t \in TaskIds :
        /\ Executed(load_task_progress)
        /\ obs' = CheckpointObs(obs.expected, "load", t, "returned",
                                load_task_progress[t])
    /\ CheckpointFrame

\* delete_task_progress (manager.py 592-599)
DeleteOk ==
    /\ \E t \in TaskIds :
        /\ Executed([load_task_progress EXCEPT ![t] = "None"])
        /\ obs' = CheckpointObs([obs.expected EXCEPT ![t] = "None"],
                                "delete", t, "returned", "None")
    /\ CheckpointFrame

\* any of the three when its statement fails (manager.py 251-255):
\* self.connection.rollback(), DatabaseError
CallRaises ==
    /\ \E t \in TaskIds, op \in {"save", "load", "delete"} :
        obs' = CheckpointObs(obs.expected, op, t, "raised", "None")
    /\ txn' = rollback(txn)
    /\ UNCHANGED task_progress
    /\ CheckpointFrame

CheckpointNext ==
    \/ SaveOk
    \/ LoadOk
    \/ DeleteOk
    \/ CallRaises

SpecCheckpoint == CheckpointInit /\ [][CheckpointNext]_vars

(***************************************************************************)
(* C24: a load_task_progress(t) that returns gives the blob of the latest   *)
(* save_task_progress(t) that returned and was not followed by a            *)
(* delete_task_progress(t), whatever calls were made on other task ids,     *)
(* and None if there is none.                                               *)
(***************************************************************************)
C24_LastWriterWins ==
    (obs.op = "load" /\ obs.outcome = "returned") =>
        obs.value = obs.expected[obs.task]

(***************************************************************************)
(* The trading calendar (checker.py 19-193, a_stock.py 236-296): one call   *)
(* of is_trading_day, update_calendar, get_previous_trading_day or          *)
(* get_next_trading_day on any trading_calendar the schema allows.          *)
(* trading_calendar is read through query and written through bulk_upsert, *)
(* which commits on its own connection, so the rows a call reads are the    *)
(* committed ones.  calendar.trading_days is what the source the call asks  *)
(* (pandas_market_calendars for the exchange, or akshare) reports.          *)
(***************************************************************************)
Exchanges == {"SSE", "SZSE"}
CalendarDates == 1..MaxDates

\* the row _update_local_calendar, _update_from_exchange and _update_from_ak
\* build for a date (checker.py 106-111, 148-153, 177-182)
CalendarRow(d, is_trading_day, e) ==
    [trade_date |-> d, is_trading_day |-> is_trading_day, exchange |-> e,
     holiday_name |-> IF is_trading_day THEN "None" ELSE "holiday"]

CalendarRows ==
    {CalendarRow(d, b, e) : d \in CalendarDates, b \in BOOLEAN, e \in Exchanges}

\* trade_date is the primary key of trading_calendar (models.py 62)
CalendarTables ==
    {T \in SUBSET CalendarRows :
        \A r1, r2 \in T : r1.trade_date = r2.trade_date => r1 = r2}

Methods == {"auto", "database", "exchange", "akshare", "other"}
Sources == {"exchange", "akshare", "other"}

CalendarCall(op, d, end, e, method, update_local, source) ==
    [NoCalendarCall EXCEPT !.op = op, !.date = d, !.end_date = end,
                           !.exchange = e, !.method = method,
                           !.update_local = update_local, !.source = source,
                           !.at = "called"]

IsTradingDayCalls ==
    {CalendarCall("is_trading_day", d, 0, e, m, u, "exchange") :
        d \in CalendarDates, e \in Exchanges, m \in Methods, u \in BOOLEAN}

UpdateCalendarCalls ==
    {CalendarCall("update_calendar", d, end, e, "auto", FALSE, s) :
        d \in CalendarDates, end \in CalendarDates, e \in Exchanges,
        s \in Sources}

\* the two methods of AStockCollector take a date only
NeighbourCalls ==
    {CalendarCall(op, d, 0, "SSE", "auto", FALSE, "exchange") :
        op \in {"get_previous_trading_day", "get_next_trading_day"},
        d \in 1..(MaxDates + 1)}

CalendarInit ==
    /\ universe = <<>>
    /\ task_progress = Absent
    /\ txn = CleanTxn
    /\ stock_hot = <<>>
    /\ clock = 0
    /\ engine = EngineIdle
    /\ wrapper = NoWrapper
    /\ calendar \in [table : CalendarTables,
                     trading_days : SUBSET CalendarDates,
                     call : IsTradingDayCalls \cup UpdateCalendarCalls
                            \cup NeighbourCalls]
    /\ runners = NoRunners
    /\ pc = "calendar"
    /\ task_id = NoTask
    /\ force_redo = FALSE
    /\ batch_size = 1
    /\ i = 0
    /\ j = 0
    /\ stats = ZeroStats
    /\ processed_symbols = {}
    /\ data = <<>>
    /\ result = ZeroStats
    /\ runs = 0
    /\ obs = ObsInit

CalendarFrame ==
    UNCHANGED <<universe, task_progress, txn, stock_hot, clock, engine,
                wrapper, runners, pc, task_id, force_redo, batch_size, i, j, stats,
                processed_symbols, data, result, runs, obs>>

CalendarCalled(op) ==
    /\ pc = "calendar"
    /\ calendar.call.at = "called"
    /\ calendar.call.op = op

\* SELECT is_trading_day FROM trading_calendar WHERE trade_date = %s AND
\* exchange = %s (checker.py 38-42, 54-58)
LocalEntry(table, d, e) ==
    {r \in table : r.trade_date = d /\ r.exchange = e}

\* _check_with_exchange and _check_with_ak (checker.py 78-97)
check_with_source(days, d) == d \in days

\* the source a method of is_trading_day asks (checker.py 47, 64, 70)
SourceOf(method) == IF method = "akshare" THEN "akshare" ELSE "exchange"

\* bulk_upsert on trading_calendar with update_fields is_trading_day and
\* holiday_name (manager.py 347-397): INSERT ... ON CONFLICT (trade_date)
\* DO UPDATE SET the two fields; the exchange of a row that is there stays
CalendarUpsert(table, rows) ==
    {IF \E n \in rows : n.trade_date = r.trade_date
        THEN LET n == CHOOSE n \in rows : n.trade_date = r.trade_date
             IN  [r EXCEPT !.is_trading_day = n.is_trading_day,
                           !.holiday_name = n.holiday_name]
        ELSE r : r \in table}
    \cup {n \in rows : \A r \in table : r.trade_date # n.trade_date}

CalendarReturned(c, answer, day, consulted) ==
    [c EXCEPT !.at = "done", !.outcome = "returned", !.answer = answer,
              !.day = day, !.consulted = consulted]

CalendarRaised(c, error, consulted, failed) ==
    [c EXCEPT !.at = "done", !.outcome = "raised", !.error = error,
              !.consulted = consulted, !.failed = failed]

\* is_trading_day, method auto, the date is in the table (checker.py 36-45)
IsTradingDayLocal ==
    /\ CalendarCalled("is_trading_day")
    /\ calendar.call.method = "auto"
    /\ LET c == calendar.call
           found == LocalEntry(calendar.table, c.date, c.exchange)
       IN  /\ found # {}
           /\ calendar' =
                [calendar EXCEPT !.call =
                    CalendarReturned(c, (CHOOSE r \in found : TRUE).is_trading_day,
                                     0, {})]
    /\ CalendarFrame

\* is_trading_day, method database (checker.py 53-61)
IsTradingDayDatabase ==
    /\ CalendarCalled("is_trading_day")
    /\ calendar.call.method = "database"
    /\ LET c == calendar.call
           found == LocalEntry(calendar.table, c.date, c.exchange)
       IN  calendar' =
             [calendar EXCEPT !.call =
                 IF found = {}
                     THEN CalendarRaised(c, "ValueError", {}, "none")
                     ELSE CalendarReturned(
                              c, (CHOOSE r \in found : TRUE).is_trading_day,
                              0, {})]
    /\ CalendarFrame

\* is_trading_day asking a source: method auto when the date is not in the
\* table, method exchange, method akshare (checker.py 46-51, 63-73), with
\* the write of _update_local_calendar (checker.py 99-117) if update_local
IsTradingDaySource ==
    /\ CalendarCalled("is_trading_day")
    /\ LET c == calendar.call
           answer == check_with_source(calendar.trading_days, c.date)
       IN  /\ \/ c.method \in {"exchange", "akshare"}
              \/ /\ c.method = "auto"
                 /\ LocalEntry(calendar.table, c.date, c.exchange) = {}
           /\ calendar' =
                [calendar EXCEPT
                    !.table =
                        IF c.update_local
                            THEN CalendarUpsert(
                                     @, {CalendarRow(c.date, answer, c.exchange)})
                            ELSE @,
                    !.call = CalendarReturned(c, answer, 0,
                                              {SourceOf(c.method)})]
    /\ CalendarFrame

\* is_trading_day with any other method (checker.py 75-76)
IsTradingDayInvalid ==
    /\ CalendarCalled("is_trading_day")
    /\ calendar.call.method \notin {"auto", "database", "exchange", "akshare"}
    /\ calendar' = [calendar EXCEPT !.call =
                       CalendarRaised(@, "ValueError", {}, "none")]
    /\ CalendarFrame

\* the rows update_calendar builds: one for every date of
\* pd.date_range(start, end), none when start is after end
\* (checker.py 143-153, 172-182); a date is taken as a trading day when the
\* source lists its calendar date
UpdateRows(c, days) ==
    {CalendarRow(d, d \in days, c.exchange) : d \in c.date..c.end_date}

\* update_calendar with source exchange or akshare (checker.py 130-133,
\* 137-193): bulk_upsert commits the rows, then logger.info (checker.py
\* 161, 190) raises NameError, as the module defines no logger, and the
\* except clause raises ValueError
UpdateCalendar ==
    /\ CalendarCalled("update_calendar")
    /\ calendar.call.source \in {"exchange", "akshare"}
    /\ calendar' =
         [calendar EXCEPT
             !.table = CalendarUpsert(
                           @, UpdateRows(calendar.call, calendar.trading_days)),
             !.call = CalendarRaised(@, "ValueError", {calendar.call.source},
                                     "none")]
    /\ CalendarFrame

\* update_calendar with any other source (checker.py 134-135)
UpdateCalendarInvalid ==
    /\ CalendarCalled("update_calendar")
    /\ calendar.call.source \notin {"exchange", "akshare"}
    /\ calendar' = [calendar EXCEPT !.call =
                       CalendarRaised(@, "ValueError", {}, "none")]
    /\ CalendarFrame

Earliest(D) == CHOOSE x \in D : \A y \in D : x <= y
Latest(D) == CHOOSE x \in D : \A y \in D : y <= x

\* trade_date < date (a_stock.py 242, 257)
Earlier(D, d) == {x \in D : x < d}

LaterOrSame(D, d) == {x \in D : x >= d}

\* trade_date > date (a_stock.py 273, 288)
Later(D, d) == {x \in D : x > d}

TradeDates(table) == {r.trade_date : r \in table}

\* get_previous_trading_day (a_stock.py 236-261): the latest trade_date of
\* the table before the date, whatever its is_trading_day; without one,
\* the last date akshare lists before the date, or None
GetPreviousTradingDay ==
    /\ CalendarCalled("get_previous_trading_day")
    /\ LET c == calendar.call
           local == Earlier(TradeDates(calendar.table), c.date)
           previous_days == Earlier(calendar.trading_days, c.date)
       IN  calendar' =
             [calendar EXCEPT !.call =
                 IF local # {}
                     THEN CalendarReturned(c, FALSE, Latest(local), {})
                     ELSE IF previous_days # {}
                         THEN CalendarReturned(c, FALSE, Latest(previous_days),
                                               {"akshare"})
                         ELSE CalendarReturned(c, FALSE, 0, {"akshare"})]
    /\ CalendarFrame

\* get_next_trading_day (a_stock.py 267-292): the earliest trade_date of
\* the table after the date; without one, the first date akshare lists
\* after the date, or None
GetNextTradingDay ==
    /\ CalendarCalled("get_next_trading_day")
    /\ LET c == calendar.call
           local == Later(TradeDates(calendar.table), c.date)
           next_days == Later(calendar.trading_days, c.date)
       IN  calendar' =
             [calendar EXCEPT !.call =
                 IF local # {}
                     THEN CalendarReturned(c, FALSE, Earliest(local), {})
                     ELSE IF next_days # {}
                         THEN CalendarReturned(c, FALSE, Earliest(next_days),
                                               {"akshare"})
                         ELSE CalendarReturned(c, FALSE, 0, {"akshare"})]
    /\ CalendarFrame

\* whether the call reads the table first (checker.py 38, 54;
\* a_stock.py 240, 271)
ReadsTable(c) ==
    \/ c.op \in {"get_previous_trading_day", "get_next_trading_day"}
    \/ c.op = "is_trading_day" /\ c.method \in {"auto", "database"}

\* whether the call, on this table, asks a source
AsksSource(c, table) ==
    \/ c.op = "is_trading_day" /\ c.method \in {"exchange", "akshare"}
    \/ /\ c.op = "is_trading_day" /\ c.method = "auto"
       /\ LocalEntry(table, c.date, c.exchange) = {}
    \/ c.op = "update_calendar" /\ c.source \in {"exchange", "akshare"}
    \/ /\ c.op = "get_previous_trading_day"
       /\ Earlier(TradeDates(table), c.date) = {}
    \/ /\ c.op = "get_next_trading_day"
       /\ Later(TradeDates(table), c.date) = {}

\* whether the call, on this table, hands rows to bulk_upsert
WritesTable(c, table) ==
    \/ /\ c.op = "is_trading_day" /\ c.update_local
       /\ AsksSource(c, table)
    \/ /\ c.op = "update_calendar" /\ c.source \in {"exchange", "akshare"}
       /\ c.date <= c.end_date

\* the query fails: execute rolls back and raises DatabaseError
\* (manager.py 251-255), which the methods of AStockCollector log and
\* raise again (a_stock.py 263-265, 294-296)
CalendarQueryRaises ==
    /\ pc = "calendar"
    /\ calendar.call.at = "called"
    /\ ReadsTable(calendar.call)
    /\ calendar' = [calendar EXCEPT !.call =
                       CalendarRaised(@, "DatabaseError", {}, "query")]
    /\ CalendarFrame

\* the source cannot be had: ValueError from the checker (checker.py 87-88,
\* 96-97, 163-164, 192-193), the error of akshare itself from the methods
\* of AStockCollector (a_stock.py 263-265, 294-296)
CalendarSourceRaises ==
    /\ pc = "calendar"
    /\ calendar.call.at = "called"
    /\ AsksSource(calendar.call, calendar.table)
    /\ LET c == calendar.call
           checker == c.op \in {"is_trading_day", "update_calendar"}
       IN  calendar' = [calendar EXCEPT !.call =
               CalendarRaised(c, IF checker THEN "ValueError" ELSE "Exception",
                              {IF c.op = "update_calendar" THEN c.source
                               ELSE IF checker THEN SourceOf(c.method)
                               ELSE "akshare"},
                              "source")]
    /\ CalendarFrame

\* bulk_upsert fails: it rolls back and raises again (manager.py 398-401);
\* update_calendar turns the error into ValueError (checker.py 163-164,
\* 192-193)
CalendarWriteRaises ==
    /\ pc = "calendar"
    /\ calendar.call.at = "called"
    /\ WritesTable(calendar.call, calendar.table)
    /\ LET c == calendar.call
       IN  calendar' = [calendar EXCEPT !.call =
               CalendarRaised(c, IF c.op = "update_calendar" THEN "ValueError"
                                 ELSE "DatabaseError",
                              {IF c.op = "update_calendar" THEN c.source
                               ELSE SourceOf(c.method)},
                              "write")]
    /\ CalendarFrame

CalendarNext ==
    \/ IsTradingDayLocal
    \/ IsTradingDayDatabase
    \/ IsTradingDaySource
    \/ IsTradingDayInvalid
    \/ UpdateCalendar
    \/ UpdateCalendarInvalid
    \/ GetPreviousTradingDay
    \/ GetNextTradingDay
    \/ CalendarQueryRaises
    \/ CalendarSourceRaises
    \/ CalendarWriteRaises

SpecCalendar == CalendarInit /\ [][CalendarNext]_vars

\* a step in which the call of op at hand comes to its end with nothing it
\* called having failed
CalendarStep(op) ==
    /\ calendar.call.op = op
    /\ calendar.call.at = "called"
    /\ calendar'.call.at = "done"
    /\ calendar'.call.failed = "none"

(***************************************************************************)
(* C25: is_trading_day with method auto returns the value of the local      *)
(* entry for (date, exchange) when there is one, and asks no source; when   *)
(* there is none it returns what the exchange source says; and when, on     *)
(* such a miss, update_local is true, the table after the call has an       *)
(* entry for (date, exchange) carrying the answer returned, which is what   *)
(* a following call with method database reads.                             *)
(***************************************************************************)
C25_WriteBackAnswers ==
    [][(CalendarStep("is_trading_day") /\ calendar.call.method = "auto") =>
        LET c == calendar.call
            after == calendar'.call
            local == LocalEntry(calendar.table, c.date, c.exchange)
            written == LocalEntry(calendar'.table, c.date, c.exchange)
        IN  /\ after.outcome = "returned"
            /\ local # {} =>
                /\ after.consulted = {}
                /\ \A r \in local : after.answer = r.is_trading_day
            /\ local = {} =>
                /\ after.consulted = {"exchange"}
                /\ after.answer = (c.date \in calendar.trading_days)
            /\ (local = {} /\ c.update_local) =>
                /\ written # {}
                /\ \A r \in written : r.is_trading_day = after.answer]_vars

(***************************************************************************)
(* C26: trading_calendar never holds two entries for one (trade_date,       *)
(* exchange), and a calendar call made for one exchange leaves every entry  *)
(* of another exchange in the table with its exchange and its               *)
(* is_trading_day as they were.                                             *)
(***************************************************************************)
C26_KeyedByDateAndExchange ==
    [][/\ \A r1, r2 \in calendar'.table :
            (r1.trade_date = r2.trade_date /\ r1.exchange = r2.exchange)
                => r1 = r2
       /\ \A r \in calendar.table :
            r.exchange # calendar.call.exchange =>
                \E r2 \in calendar'.table :
                    /\ r2.trade_date = r.trade_date
                    /\ r2.exchange = r.exchange
                    /\ r2.is_trading_day = r.is_trading_day]_vars

(***************************************************************************)
(* C27: when trading_calendar has an entry before the date with             *)
(* is_trading_day true, get_previous_trading_day returns a date before the  *)
(* date whose entry has is_trading_day true.                                *)
(***************************************************************************)
C27_PreviousIsTradingDay ==
    LET c == calendar.call
    IN  (/\ c.op = "get_previous_trading_day"
         /\ c.at = "done"
         /\ c.failed = "none"
         /\ \E r \in calendar.table : r.trade_date < c.date /\ r.is_trading_day)
        => /\ c.outcome = "returned"
           /\ c.day # 0
           /\ c.day < c.date
           /\ \E r \in calendar.table :
                r.trade_date = c.day /\ r.is_trading_day

C29_UpdateCalendarFills ==
    [][(/\ CalendarStep("update_calendar")
        /\ calendar.call.source \in {"exchange", "akshare"}) =>
        LET c == calendar.call
        IN  IF c.date <= c.end_date
                THEN /\ calendar'.call.outcome = "returned"
                     /\ \A d \in c.date..c.end_date :
                          \E r \in calendar'.table :
                            /\ r.trade_date = d
                            /\ r.is_trading_day = (d \in calendar.trading_days)
                            /\ (r.holiday_name = "holiday") = ~r.is_trading_day
                ELSE calendar'.table = calendar.table]_vars

(***************************************************************************)
(* Two runs of fetch_and_save_all on one task_id (a_stock.py 298-389).      *)
(* runners.shared tells whether the runs are threads calling one collector *)
(* and so one self.connection, or processes with a connection each.  What   *)
(* a run reads is what its connection holds uncommitted over the committed  *)
(* row; no checkpoint statement is committed (manager.py 240-241).  With a  *)
(* connection each, an INSERT of a task_id that another open transaction    *)
(* has inserted waits until that transaction is over.                       *)
(***************************************************************************)
Runners == {1, 2}

RunnerIdle ==
    [pc |-> "idle", force_redo |-> FALSE,
     k |-> 0,                  \* stocks of the universe the loop has passed
     stats |-> ZeroStats, processed_symbols |-> {},
     saved |-> {},             \* processed_symbols of its last checkpoint
     result |-> "none"]

NoSession ==
    [dirty |-> FALSE, row |-> Absent,
     inserted |-> FALSE,       \* the transaction has inserted the task's row
     by |-> 0]                 \* the run whose statement came last

RunnersInit ==
    /\ universe = [k \in 1..MaxUniverse |-> k]
    /\ task_progress = Absent
    /\ txn = CleanTxn
    /\ stock_hot = <<>>
    /\ clock = 0
    /\ engine = EngineIdle
    /\ wrapper = NoWrapper
    /\ calendar = NoCalendar
    /\ runners \in [shared : BOOLEAN,
                    run : {[r \in Runners |-> RunnerIdle]},
                    session : {[c \in Runners |-> NoSession]}]
    /\ pc = "runners"
    /\ task_id = TheTask
    /\ force_redo = FALSE
    /\ batch_size = MaxUniverse   \* the whole universe is one batch
    /\ i = 0
    /\ j = 0
    /\ stats = ZeroStats
    /\ processed_symbols = {}
    /\ data = <<>>
    /\ result = ZeroStats
    /\ runs = 0
    /\ obs = ObsInit

RunnersFrame ==
    UNCHANGED <<universe, task_progress, txn, stock_hot, clock, engine,
                wrapper, calendar, pc, task_id, force_redo, batch_size, i, j,
                stats, processed_symbols, data, result, runs, obs>>

\* the connection a run's execute() goes through (manager.py 236)
Conn(r) == IF runners.shared THEN 1 ELSE r

\* what a SELECT through connection c sees
View(c) ==
    IF runners.session[c].dirty THEN runners.session[c].row ELSE task_progress

\* another open transaction has inserted the row of the task
Blocked(r) ==
    \E c \in Runners \ {Conn(r)} : runners.session[c].inserted

\* the stock the loop of run r is at (a_stock.py 338-343)
StockOf(r) == universe[runners.run[r].k + 1]
InLoopOf(r) ==
    /\ pc = "runners"
    /\ runners.run[r].pc = "loop"
    /\ runners.run[r].k < Len(universe)
SkipItOf(r) ==
    StockOf(r) \in runners.run[r].processed_symbols /\ ~runners.run[r].force_redo

\* the dict handed to save_task_progress (a_stock.py 363-367); i is the
\* start of the batch the stock is in
CheckpointDataOf(r) ==
    [stats |-> runners.run[r].stats,
     processed_symbols |-> runners.run[r].processed_symbols,
     current_batch |-> runners.run[r].k - (runners.run[r].k % batch_size)]

SaveRowMerged(before, progress_data) ==
    [present |-> TRUE, stats |-> progress_data.stats,
     processed_symbols |->
        before.processed_symbols \cup progress_data.processed_symbols,
     current_batch |-> progress_data.current_batch]

\* ON CONFLICT (task_id) DO UPDATE SET progress_data = EXCLUDED.progress_data
\* (manager.py 567-574): the row is the blob handed in, whatever it was
SaveRow(before, progress_data) ==
    [present |-> TRUE, stats |-> progress_data.stats,
     processed_symbols |-> progress_data.processed_symbols,
     current_batch |-> progress_data.current_batch]

\* the locals of a run that is over
RunnerOver(how) == [RunnerIdle EXCEPT !.pc = "done", !.result = how]

\* entry (a_stock.py 307-335)
RunnerStart(r, fr) ==
    /\ pc = "runners"
    /\ runners.run[r].pc = "idle"
    /\ LET progress == IF ~fr THEN View(Conn(r)) ELSE Absent
       IN  runners' =
             [runners EXCEPT !.run[r] =
                 [RunnerIdle EXCEPT
                     !.pc = "loop",
                     !.force_redo = fr,
                     !.result = "running",
                     !.processed_symbols =
                         IF progress.present THEN progress.processed_symbols
                         ELSE {},
                     !.stats =
                         IF progress.present THEN progress.stats
                         ELSE [ZeroStats EXCEPT !.total = Len(universe)]]]
    /\ RunnersFrame

\* the universe query or load_task_progress raises: execute rolls the
\* connection back (manager.py 251-255), the run raises (a_stock.py 387-389)
RunnerStartRaises(r) ==
    /\ pc = "runners"
    /\ runners.run[r].pc = "idle"
    /\ runners' = [runners EXCEPT !.run[r] = RunnerOver("raised"),
                                  !.session[Conn(r)] = NoSession]
    /\ RunnersFrame

\* the stock is in processed_symbols (a_stock.py 345-347)
RunnerSkip(r) ==
    /\ InLoopOf(r)
    /\ SkipItOf(r)
    /\ runners' = [runners EXCEPT !.run[r].stats.processed = @ + 1,
                                  !.run[r].k = @ + 1]
    /\ RunnersFrame

\* fetch_history_data or save_to_database raises (a_stock.py 350-354,
\* 372-375); rolled tells whether it was an execute() of
\* ensure_table_exists, which rolls the connection back
RunnerEntityRaises(r, rolled) ==
    /\ InLoopOf(r)
    /\ ~SkipItOf(r)
    /\ runners' = [runners EXCEPT
                      !.run[r].stats.failed = @ + 1,
                      !.run[r].k = @ + 1,
                      !.session[Conn(r)] = IF rolled THEN NoSession ELSE @]
    /\ RunnersFrame

\* fetch_history_data returns [] (a_stock.py 350, 355-359)
RunnerFetchEmpty(r) ==
    /\ InLoopOf(r)
    /\ ~SkipItOf(r)
    /\ runners' = [runners EXCEPT
                      !.run[r].stats.failed = @ + 1,
                      !.run[r].stats.processed = @ + 1,
                      !.run[r].processed_symbols = @ \cup {StockOf(r)},
                      !.run[r].pc = "checkpoint"]
    /\ RunnersFrame

\* fetch_history_data returns rows and save_to_database stores them
\* (a_stock.py 350-354, 358-359)
RunnerStored(r) ==
    /\ InLoopOf(r)
    /\ ~SkipItOf(r)
    /\ runners' = [runners EXCEPT
                      !.run[r].stats.records = @ + RowsOf(StockOf(r)),
                      !.run[r].stats.success = @ + 1,
                      !.run[r].stats.processed = @ + 1,
                      !.run[r].processed_symbols = @ \cup {StockOf(r)},
                      !.run[r].pc = "checkpoint"]
    /\ RunnersFrame

\* save_task_progress returns, then the delay and the next stock
\* (a_stock.py 362-370)
RunnerCheckpoint(r) ==
    /\ pc = "runners"
    /\ runners.run[r].pc = "checkpoint"
    /\ ~Blocked(r)
    /\ runners' = [runners EXCEPT
                      !.session[Conn(r)] =
                          [dirty |-> TRUE,
                           row |-> SaveRow(View(Conn(r)), CheckpointDataOf(r)),
                           inserted |-> TRUE,
                           by |-> r],
                      !.run[r].saved = runners.run[r].processed_symbols,
                      !.run[r].k = @ + 1,
                      !.run[r].pc = "loop"]
    /\ RunnersFrame

\* save_task_progress raises inside the try of the stock (a_stock.py 363,
\* 372-375; manager.py 251-255)
RunnerCheckpointRaises(r) ==
    /\ pc = "runners"
    /\ runners.run[r].pc = "checkpoint"
    /\ runners' = [runners EXCEPT
                      !.session[Conn(r)] = NoSession,
                      !.run[r].stats.failed = @ + 1,
                      !.run[r].k = @ + 1,
                      !.run[r].pc = "loop"]
    /\ RunnersFrame

\* the loop is over: delete_task_progress, return stats (a_stock.py 377-385)
RunnerFinish(r) ==
    /\ pc = "runners"
    /\ runners.run[r].pc = "loop"
    /\ runners.run[r].k = Len(universe)
    /\ runners' = [runners EXCEPT
                      !.session[Conn(r)] =
                          [@ EXCEPT !.dirty = TRUE, !.row = Absent, !.by = r],
                      !.run[r] = RunnerOver("returned")]
    /\ RunnersFrame

\* delete_task_progress raises (a_stock.py 379, 387-389)
RunnerFinishRaises(r) ==
    /\ pc = "runners"
    /\ runners.run[r].pc = "loop"
    /\ runners.run[r].k = Len(universe)
    /\ runners' = [runners EXCEPT
                      !.session[Conn(r)] = NoSession,
                      !.run[r] = RunnerOver("raised")]
    /\ RunnersFrame

\* the process whose runs are over exits (main.py 24-31): what its
\* connection had not committed is gone
ProcessExits(c) ==
    /\ pc = "runners"
    /\ \E r \in Runners : Conn(r) = c
    /\ \A r \in Runners : Conn(r) = c => runners.run[r].pc = "done"
    /\ runners' = [runners EXCEPT
                      !.session[c] = NoSession,
                      !.run = [r \in Runners |->
                                  IF Conn(r) = c
                                  THEN [runners.run[r] EXCEPT !.pc = "exited"]
                                  ELSE runners.run[r]]]
    /\ RunnersFrame

RunnersNext ==
    \/ \E r \in Runners, fr \in BOOLEAN : RunnerStart(r, fr)
    \/ \E r \in Runners : RunnerStartRaises(r)
    \/ \E r \in Runners : RunnerSkip(r)
    \/ \E r \in Runners, rolled \in BOOLEAN : RunnerEntityRaises(r, rolled)
    \/ \E r \in Runners : RunnerFetchEmpty(r)
    \/ \E r \in Runners : RunnerStored(r)
    \/ \E r \in Runners : RunnerCheckpoint(r)
    \/ \E r \in Runners : RunnerCheckpointRaises(r)
    \/ \E r \in Runners : RunnerFinish(r)
    \/ \E r \in Runners : RunnerFinishRaises(r)
    \/ \E c \in Runners : ProcessExits(c)

SpecRunners == RunnersInit /\ [][RunnersNext]_vars

(***************************************************************************)
(* C30: two runs of fetch_and_save_all on one task_id can lose progress.    *)
(* A save_task_progress replaces the whole blob: the checkpoint a           *)
(* connection holds is exactly the processed_symbols of the last save of    *)
(* the run that wrote it, with nothing of the other run's saves kept.  The  *)
(* state C30_Witness, in which the checkpoint lacks a symbol one run has    *)
(* saved because the other run saved after it, is reached.                  *)
(***************************************************************************)
C30_SaveReplacesBlob ==
    pc = "runners" =>
        \A c \in Runners :
            LET s == runners.session[c]
            IN  (s.dirty /\ s.row.present) =>
                    /\ s.by \in Runners
                    /\ s.row.processed_symbols = runners.run[s.by].saved

\* both runs are going on; the checkpoint was written last by run b and
\* lacks a symbol run a has saved as processed
C30_Witness ==
    /\ pc = "runners"
    /\ \E a \in Runners : \E b \in Runners \ {a} :
        /\ runners.run[a].pc \in {"loop", "checkpoint"}
        /\ runners.run[b].pc \in {"loop", "checkpoint"}
        /\ runners.session[Conn(a)].by = b
        /\ View(Conn(a)).present
        /\ \E x \in runners.run[a].saved :
             x \notin View(Conn(a)).processed_symbols

(***************************************************************************)
(* Further properties of the collection pipeline (specification Spec).      *)
(***************************************************************************)
\* a step in which fetch_history_data is called for the next stock
FetchStep ==
    /\ Len(obs'.run.visited) = Len(obs.run.visited) + 1
    /\ obs'.run.last_outcome \in {"fetch_raised", "empty", "rows"}

\* how the handling of a stock ends when it leaves through the except
\* branch, which goes to the next stock without the delay
EndedInExcept == {"fetch_raised", "store_raised", "save_raised"}

(***************************************************************************)
(* C31: between the fetch for one stock and the fetch for the next stock    *)
(* that is not skipped, the run performs the delay, however the handling    *)
(* of the first stock ended: no fetch is made right after a handling that   *)
(* ended without the delay.                                                 *)
(***************************************************************************)
C31_DelayBetweenFetches ==
    [][FetchStep => obs.run.last_outcome \notin EndedInExcept]_vars

(***************************************************************************)
(* C32: in a run with force_redo false no stock that is in the processed    *)
(* set, which holds what was loaded from the checkpoint, is fetched or      *)
(* upserted; a run with force_redo true starts with the counters of stats   *)
(* at zero and an empty processed set whatever checkpoint is stored, and    *)
(* has fetched every stock of the universe when its loop is over.           *)
(***************************************************************************)
C32_SkipAndForceRedo ==
    [][/\ (FetchStep /\ ~force_redo) =>
            obs'.run.last_symbol \notin processed_symbols
       /\ (pc' = "store" /\ ~force_redo') =>
            obs'.run.last_symbol \notin processed_symbols
       /\ (pc = "idle" /\ pc' = "loop" /\ force_redo') =>
            /\ processed_symbols' = {}
            /\ stats' = [ZeroStats EXCEPT !.total = Len(universe)]
       /\ (pc' = "loop" /\ i' >= Len(universe) /\ force_redo') =>
            obs'.run.fetch_calls = UniverseSet]_vars

\* a run without force_redo, seeded from a checkpoint, has skipped a stock
\* of it without fetching it
C32_Witness ==
    /\ pc = "loop"
    /\ ~force_redo
    /\ obs.run.loaded
    /\ obs.run.last_outcome = "skipped"
    /\ obs.run.last_symbol \in processed_symbols
    /\ obs.run.last_symbol \notin obs.run.fetch_calls

(***************************************************************************)
(* C33: the stats a run of fetch_and_save_all returns have processed equal  *)
(* to total and total equal to the number of stocks of the universe, also   *)
(* when the run was seeded from a checkpoint.  Stated for runs in which no  *)
(* call raised.                                                             *)
(***************************************************************************)
C33_ProcessedIsTotal ==
    (pc = "idle" /\ result = "returned" /\ ~obs.run.raised) =>
        /\ stats.total = Len(universe)
        /\ stats.processed = stats.total

\* the stocks the run has handled or taken over as handled from a checkpoint
HandledStocks ==
    processed_symbols \cup {obs.run.visited[n] : n \in 1..Len(obs.run.visited)}

(***************************************************************************)
(* C34: every stock is counted in one outcome only: at every point of a     *)
(* run, also one seeded from the checkpoint of an interrupted run, success  *)
(* plus failed is at most the number of distinct stocks handled, and it is  *)
(* total in the stats a run returns.                                        *)
(***************************************************************************)
C34_OneOutcomePerStock ==
    /\ pc # "idle" =>
        stats.success + stats.failed <= Cardinality(HandledStocks)
    /\ (pc = "idle" /\ result = "returned") =>
        stats.success + stats.failed = stats.total

(***************************************************************************)
(* Batching (a_stock.py 337-375): a run with some batch_size, held in the   *)
(* variables of the pipeline, and beside it in obs a run over the same      *)
(* universe with batch_size 1, both given the same outcome for each stock.  *)
(* obs keeps for each of the two the fetches, the upserts and the           *)
(* processed sets checkpointed, in order.                                   *)
(***************************************************************************)
\* how the handling of a stock that is not skipped may go
StockOutcomes ==
    {"fetch_raised", "empty", "empty_save_raised", "stored",
     "stored_save_raised", "store_raised"}

NoTrace == [fetches |-> <<>>, upserts |-> <<>>, checkpoints |-> <<>>]

\* the locals of a run and what it has done so far, after one stock
\* (a_stock.py 342-375); skip is the test of line 345, tid the task_id
Handled(st, s, skip, outcome, tid) ==
    LET fetched == [st EXCEPT !.fetches = Append(@, s)]
        counted(t) ==
            [t EXCEPT !.processed_symbols = @ \cup {s},
                      !.stats.processed = @ + 1]
        saved(t) ==
            IF tid = NoTask THEN t
            ELSE IF outcome \in {"empty_save_raised", "stored_save_raised"}
            THEN [t EXCEPT !.stats.failed = @ + 1]
            ELSE [t EXCEPT !.checkpoints = Append(@, t.processed_symbols)]
    IN  IF skip THEN [st EXCEPT !.stats.processed = @ + 1]
        ELSE IF outcome \in {"fetch_raised", "store_raised"}
        THEN [fetched EXCEPT !.stats.failed = @ + 1]
        ELSE IF outcome \in {"empty", "empty_save_raised"}
        THEN saved(counted([fetched EXCEPT !.stats.failed = @ + 1]))
        ELSE saved(counted([fetched EXCEPT
                                !.upserts = Append(@, s),
                                !.stats.records = @ + RowsOf(s),
                                !.stats.success = @ + 1]))

\* the stocks of the universe: enough for a batch of two and a short one
BatchStocks == 1..(MaxUniverse + 1)

\* the run with batch_size 1: its locals, its position and its doings
OneByOne(seed) ==
    [stats |-> [ZeroStats EXCEPT !.total = Cardinality(BatchStocks),
                                 !.processed = Cardinality(seed)],
     processed_symbols |-> seed, i |-> 0,
     fetches |-> <<>>, upserts |-> <<>>, checkpoints |-> <<>>]

BatchInit ==
    /\ universe = [k \in BatchStocks |-> k]
    /\ task_progress = Absent
    /\ txn = CleanTxn
    /\ stock_hot = <<>>
    /\ clock = 0
    /\ engine = EngineIdle
    /\ wrapper = NoWrapper
    /\ calendar = NoCalendar
    /\ runners = NoRunners
    /\ pc = "batch"
    /\ task_id \in {NoTask, TheTask}
    /\ force_redo \in BOOLEAN
    /\ batch_size \in 1..(Cardinality(BatchStocks) + 1)
    /\ i = 0
    /\ j = 0
    /\ processed_symbols \in
         IF force_redo \/ task_id = NoTask THEN {{}} ELSE SUBSET BatchStocks
    /\ stats = OneByOne(processed_symbols).stats
    /\ data = <<>>
    /\ result = "running"
    /\ runs = 0
    /\ obs = [batched |-> NoTrace, one |-> OneByOne(processed_symbols)]

\* one stock in both runs
BatchStock(outcome) ==
    /\ pc = "batch"
    /\ InLoop
    /\ obs.one.i < Len(universe)
    /\ LET one == obs.one
           s1 == universe[one.i + 1]
           skip1 == s1 \in one.processed_symbols /\ ~force_redo
           after ==
               Handled([stats |-> stats,
                        processed_symbols |-> processed_symbols,
                        fetches |-> obs.batched.fetches,
                        upserts |-> obs.batched.upserts,
                        checkpoints |-> obs.batched.checkpoints],
                       symbol, SkipIt, outcome, task_id)
       IN  /\ stats' = after.stats
           /\ processed_symbols' = after.processed_symbols
           /\ obs' = [batched |-> [fetches |-> after.fetches,
                                   upserts |-> after.upserts,
                                   checkpoints |-> after.checkpoints],
                      one |-> [Handled(one, s1, skip1, outcome, task_id)
                                  EXCEPT !.i = @ + 1]]
    /\ i' = NextI
    /\ j' = NextJ
    /\ UNCHANGED <<store_vars, pc, task_id, force_redo, batch_size, data,
                   result, runs>>

\* the loops are over: both runs return their stats (a_stock.py 377-385)
BatchReturn ==
    /\ pc = "batch"
    /\ ~InLoop
    /\ obs.one.i >= Len(universe)
    /\ pc' = "returned"
    /\ result' = stats
    /\ UNCHANGED <<store_vars, task_id, force_redo, batch_size, i, j, stats,
                   processed_symbols, data, runs, obs>>

BatchNext ==
    \/ \E outcome \in StockOutcomes : BatchStock(outcome)
    \/ BatchReturn

SpecBatch == BatchInit /\ [][BatchNext]_vars

(***************************************************************************)
(* C35: whatever batch_size is, the run takes the stocks in the order of    *)
(* the universe and, given the same outcomes, its fetches, its upserts,     *)
(* the processed sets it checkpoints and its stats are those of the run     *)
(* with batch_size 1, and it ends when that run ends.                       *)
(***************************************************************************)
C35_BatchingChangesNothing ==
    pc \in {"batch", "returned"} =>
        /\ InLoop <=> obs.one.i < Len(universe)
        /\ InLoop => symbol = universe[obs.one.i + 1]
        /\ obs.batched.fetches = obs.one.fetches
        /\ obs.batched.upserts = obs.one.upserts
        /\ obs.batched.checkpoints = obs.one.checkpoints
        /\ stats = obs.one.stats
        /\ processed_symbols = obs.one.processed_symbols
        /\ pc = "returned" => result = obs.one.stats

\* a run whose batches hold more than one stock, and whose last batch is
\* short, has returned after fetching and checkpointing
C35_Witness ==
    /\ pc = "returned"
    /\ batch_size > 1
    /\ batch_size < Len(universe)
    /\ Len(obs.batched.fetches) > 1
    /\ obs.batched.checkpoints # <<>>

(***************************************************************************)
(* save_to_database (a_stock.py 182-212), call by call.  obs holds the      *)
(* rows handed in, by the symbol each carries, the storage calls made so    *)
(* far in order, and how the call ended.                                    *)
(***************************************************************************)
SaveSymbols ==
    {<<"ascii_alnum">>, <<"ascii_alnum", "ascii_alnum">>, <<"other_alnum">>,
     <<"punctuation">>, <<>>}

SaveData == UNION {[1..n -> SaveSymbols] : n \in 0..MaxRows}

SaveInit ==
    /\ universe = <<>>
    /\ task_progress = Absent
    /\ txn = CleanTxn
    /\ stock_hot = <<>>
    /\ clock = 0
    /\ engine = EngineIdle
    /\ wrapper = NoWrapper
    /\ calendar = NoCalendar
    /\ runners = NoRunners
    /\ pc = "save"
    /\ task_id = NoTask
    /\ force_redo = FALSE
    /\ batch_size = 1
    /\ i = 0
    /\ j = 0
    /\ stats = ZeroStats
    /\ processed_symbols = {}
    /\ data \in SaveData
    /\ result = "none"
    /\ runs = 0
    /\ obs = [at |-> "called", table_name |-> <<>>, events |-> <<>>,
              count |-> 0, outcome |-> "none", value |-> 0, error |-> "none"]

SaveFrame ==
    UNCHANGED <<store_vars, pc, task_id, force_redo, batch_size, i, j, stats,
                processed_symbols, data, result, runs>>

SaveAt(where) == pc = "save" /\ obs.at = where

TableOfLast(rows) == <<"stock_hot_">> \o rows[Len(rows)]

\* symbol = data[0]['symbol'], f'stock_hot_{symbol}' (a_stock.py 186-187,
\* manager.py 285)
TableOf(rows) == <<"stock_hot_">> \o rows[1]

\* if not data: return 0 (a_stock.py 183-184)
SaveNothing ==
    /\ SaveAt("called")
    /\ data = <<>>
    /\ obs' = [obs EXCEPT !.at = "done", !.outcome = "returned", !.value = 0]
    /\ SaveFrame

\* get_stock_table_name, before the try (a_stock.py 186-187,
\* manager.py 281-285)
SaveTableName ==
    /\ SaveAt("called")
    /\ data # <<>>
    /\ obs' = IF isalnum(data[1])
              THEN [obs EXCEPT !.at = "ensure", !.table_name = TableOf(data)]
              ELSE [obs EXCEPT !.at = "done", !.outcome = "raised",
                               !.error = "InvalidSymbolError"]
    /\ SaveFrame

SaveEvent(call) == [call |-> call, table_name |-> obs.table_name]

\* ensure_table_exists returns (a_stock.py 191)
SaveEnsureOk ==
    /\ SaveAt("ensure")
    /\ obs' = [obs EXCEPT !.at = "upsert",
                          !.events = Append(@, SaveEvent("ensure_table_exists"))]
    /\ SaveFrame

\* bulk_upsert returns the number of rows (a_stock.py 200-207,
\* manager.py 397), which save_to_database returns
SaveUpsertOk ==
    /\ SaveAt("upsert")
    /\ obs' = [obs EXCEPT !.at = "done",
                          !.events = Append(@, SaveEvent("bulk_upsert")),
                          !.count = Len(data),
                          !.outcome = "returned",
                          !.value = Len(data)]
    /\ SaveFrame

\* ensure_table_exists or bulk_upsert raises: logged and raised again
\* (a_stock.py 209-211)
SaveCallRaises ==
    /\ pc = "save"
    /\ obs.at \in {"ensure", "upsert"}
    /\ obs' = [obs EXCEPT
                  !.at = "done",
                  !.events = Append(@, SaveEvent(IF obs.at = "ensure"
                                                 THEN "ensure_table_exists"
                                                 ELSE "bulk_upsert")),
                  !.outcome = "raised",
                  !.error = "DatabaseError"]
    /\ SaveFrame

SaveNext ==
    \/ SaveNothing
    \/ SaveTableName
    \/ SaveEnsureOk
    \/ SaveUpsertOk
    \/ SaveCallRaises

SpecSave == SaveInit /\ [][SaveNext]_vars

(***************************************************************************)
(* C36: a save_to_database that returns, called with rows, has made two     *)
(* storage calls: ensure_table_exists and then bulk_upsert, both on the     *)
(* table of the symbol the rows carry, and returns what bulk_upsert         *)
(* returned; called with no rows it returns 0 and has made no storage call. *)
(* bulk_upsert is never called before ensure_table_exists has returned.     *)
(***************************************************************************)
C36_EnsureThenUpsertOnce ==
    pc = "save" =>
        /\ \A n \in 1..Len(obs.events) :
            /\ obs.events[n].call = "bulk_upsert" =>
                (n = 2 /\ obs.events[1].call = "ensure_table_exists")
            /\ obs.events[n].table_name = <<"stock_hot_">> \o data[1]
        /\ (obs.outcome = "returned" /\ data # <<>>) =>
            /\ Len(obs.events) = 2
            /\ obs.events[2].call = "bulk_upsert"
            /\ obs.value = obs.count
        /\ (obs.at = "done" /\ data = <<>>) =>
            /\ obs.outcome = "returned"
            /\ obs.value = 0
            /\ obs.events = <<>>

\* rows of one stock have been stored and counted
C36_Witness ==
    /\ pc = "save"
    /\ obs.outcome = "returned"
    /\ Len(data) > 1
    /\ \A n \in 1..Len(data) : data[n] = data[1]
    /\ Len(obs.events) = 2
    /\ obs.value = Len(data)

\* the processed set of the checkpoint a load would return now
StoredProcessed ==
    IF load_task_progress.present
    THEN load_task_progress.processed_symbols ELSE {}

(***************************************************************************)
(* C37: during a run with a task_id and force_redo false, from its start    *)
(* until delete_task_progress at its end, the processed set of the stored   *)
(* checkpoint only grows, and it holds only stocks the run has in its own   *)
(* processed set, that is, stocks whose handling is over.                   *)
(***************************************************************************)
C37_CheckpointOnlyGrows ==
    [][(/\ pc \notin {"idle", "engine"}
        /\ pc' \notin {"idle", "engine"}
        /\ task_id # NoTask
        /\ ~force_redo) =>
            /\ StoredProcessed \subseteq StoredProcessed'
            /\ StoredProcessed' \subseteq processed_symbols']_vars

(***************************************************************************)
(* The limit of query (manager.py 403-500).  A behaviour of SpecLimit is    *)
(* one query over the rows that match its conditions: data holds their      *)
(* trade dates in the order the table stores them, obs the order_by,        *)
(* ascending and limit handed in, the clauses of the statement built, and   *)
(* what came back.                                                          *)
(***************************************************************************)
\* limit: None, the default, or an integer
NoLimit == [given |-> FALSE, value |-> 0]

LimitValues == {NoLimit} \cup [given : {TRUE}, value : 0..MaxRows]

\* the rows that match, in stored order
MatchingRows ==
    {rows \in UNION {[1..n -> 1..MaxRows] : n \in 0..MaxRows} :
        \A a \in DOMAIN rows, b \in DOMAIN rows : rows[a] = rows[b] => a = b}

LimitInit ==
    /\ universe = <<>>
    /\ task_progress = Absent
    /\ txn = CleanTxn
    /\ stock_hot = <<>>
    /\ clock = 0
    /\ engine = EngineIdle
    /\ wrapper = NoWrapper
    /\ calendar = NoCalendar
    /\ runners = NoRunners
    /\ pc = "limit"
    /\ task_id = NoTask
    /\ force_redo = FALSE
    /\ batch_size = 1
    /\ i = 0
    /\ j = 0
    /\ stats = ZeroStats
    /\ processed_symbols = {}
    /\ data \in MatchingRows
    /\ result = "none"
    /\ runs = 0
    /\ \E order_by \in BOOLEAN, ascending \in BOOLEAN, limit \in LimitValues :
        obs = [at |-> "called", order_by |-> order_by,
               ascending |-> ascending, limit |-> limit,
               order_clause |-> "none", limit_clause |-> FALSE,
               params |-> <<>>, outcome |-> "none", rows |-> <<>>]

LimitFrame ==
    UNCHANGED <<store_vars, pc, task_id, force_redo, batch_size, i, j, stats,
                processed_symbols, data, result, runs>>

\* if limit: (manager.py 481); None and 0 are false
Truthy(limit) == limit.given /\ limit.value # 0

\* ORDER BY and LIMIT of the statement, and the param of LIMIT (manager.py
\* 471-483)
LimitStatement ==
    /\ pc = "limit"
    /\ obs.at = "called"
    /\ obs' = [obs EXCEPT
                  !.at = "execute",
                  !.order_clause = IF ~obs.order_by THEN "none"
                                   ELSE IF obs.ascending THEN "ASC"
                                   ELSE "DESC",
                  !.limit_clause = Truthy(obs.limit),
                  !.params = IF Truthy(obs.limit) THEN <<obs.limit.value>>
                             ELSE <<>>]
    /\ LimitFrame

\* the dates of a set, ascending or descending
RECURSIVE InOrder(_, _)
InOrder(dates, ascending) ==
    IF dates = {} THEN <<>>
    ELSE LET first == CHOOSE d \in dates :
                        \A e \in dates : IF ascending THEN d <= e ELSE d >= e
         IN  <<first>> \o InOrder(dates \ {first}, ascending)

\* what the server hands back for ORDER BY and LIMIT clauses over the
\* matching rows
Selected(rows, order_clause, limit_clause, params) ==
    LET ordered == IF order_clause = "none" THEN rows
                   ELSE InOrder({rows[n] : n \in DOMAIN rows},
                                order_clause = "ASC")
    IN  IF limit_clause
        THEN SubSeq(ordered, 1, Min(params[1], Len(ordered)))
        ELSE ordered

\* self.execute returns the rows, which query returns (manager.py 486-496)
LimitExecuteOk ==
    /\ pc = "limit"
    /\ obs.at = "execute"
    /\ obs' = [obs EXCEPT
                  !.at = "done",
                  !.outcome = "returned",
                  !.rows = Selected(data, obs.order_clause, obs.limit_clause,
                                    obs.params)]
    /\ LimitFrame

\* self.execute raises: DatabaseError (manager.py 498-500)
LimitExecuteRaises ==
    /\ pc = "limit"
    /\ obs.at = "execute"
    /\ obs' = [obs EXCEPT !.at = "done", !.outcome = "raised"]
    /\ LimitFrame

LimitNext ==
    \/ LimitStatement
    \/ LimitExecuteOk
    \/ LimitExecuteRaises

SpecLimit == LimitInit /\ [][LimitNext]_vars

\* the matching rows in the order the caller asked for
Requested ==
    IF ~obs.order_by THEN data
    ELSE InOrder({data[n] : n \in DOMAIN data}, obs.ascending)

(***************************************************************************)
(* C38: a query that returns, given an integer limit L >= 0, returns at     *)
(* most L rows, the first L of the matching rows in the requested order;    *)
(* given no limit it returns all the matching rows.                         *)
(***************************************************************************)
C38_QueryHonoursLimit ==
    (pc = "limit" /\ obs.outcome = "returned") =>
        IF obs.limit = NoLimit
        THEN obs.rows = Requested
        ELSE /\ Len(obs.rows) <= obs.limit.value
             /\ obs.rows = SubSeq(Requested, 1,
                                  Min(obs.limit.value, Len(Requested)))

====
